---- MODULE Spec2Model ----
(***************************************************************************)
(* Tiny-pointer dereference tables (src/TinyPoint):                        *)
(*   LoadBalancingTable, PowerOfTwoChoicesDerefTable (building_blocks.py), *)
(*   FixedSizeDerefTable (fixed_size_table.py),                            *)
(*   _Container and VariableSizeDerefTable (variable_size_table.py),       *)
(*   DerefTable (deref_table.py), TinyHashTable (hash_table.py),           *)
(*   TinyAllocator (allocator.py),                                         *)
(* and SimulationHashTable (src/UniformHashing/UniformHashScenario.py).    *)
(*                                                                         *)
(* Every table object is a record holding the fields the constructor sets. *)
(* Every method is an operator from (table, arguments) to the table after  *)
(* the call together with what the caller gets back (a return value or the *)
(* kind of exception raised).  The actions apply the methods to the table  *)
(* under test; `kind` says which table a behaviour exercises.              *)
(*                                                                         *)
(* Python lists are functions on 0..len-1.  Python None is the empty       *)
(* tuple <<>>, an optional result x is <<x>>.  Python integers wider than  *)
(* 31 bits (the level word with its 1<<31 flag, the packed 64-bit global   *)
(* pointer) are kept as fields of 16/32 bits, see Wide and GlobalPointer.  *)
(***************************************************************************)
EXTENDS Integers, Sequences, FiniteSets, TLC

\* ------------------------------------------------------------------------
\* Bounds of the model
\* ------------------------------------------------------------------------
NumKeys == 2
NumVals == 2
\* successful free calls on the variable-size table in one behaviour
MaxFrees == 2
\* entries allocated before the caller frees them all
MaxPairs == 3

Keys == 1..NumKeys
Values == 1..NumVals

None == <<>>

\* ------------------------------------------------------------------------
\* Integer helpers (math.ceil, math.log2, bit operators of Python)
\* ------------------------------------------------------------------------
Max(a, b) == IF a >= b THEN a ELSE b

CeilDiv(a, b) == (a + b - 1) \div b

RECURSIVE Pow2(_)
Pow2(e) == IF e <= 0 THEN 1 ELSE 2 * Pow2(e - 1)

\* math.ceil(math.log2(x)) for an integer x >= 1
CeilLog2(x) == CHOOSE m \in 0..30 : Pow2(m) >= x /\ \A j \in 0..(m - 1) : Pow2(j) < x

\* a >> s and a << s on Python integers (>> floors, also for negative a)
RECURSIVE ShiftRight(_, _)
ShiftRight(a, s) == IF s <= 0 THEN a ELSE ShiftRight(a \div 2, s - 1)
ShiftLeft(a, s) == a * Pow2(s)

RECURSIVE BitAnd(_, _)
BitAnd(a, b) ==
    IF a = 0 \/ b = 0 THEN 0
    ELSE (IF a % 2 = 1 /\ b % 2 = 1 THEN 1 ELSE 0) + 2 * BitAnd(a \div 2, b \div 2)

RECURSIVE BitOr(_, _)
BitOr(a, b) ==
    IF a = 0 THEN b
    ELSE IF b = 0 THEN a
    ELSE (IF a % 2 = 1 \/ b % 2 = 1 THEN 1 ELSE 0) + 2 * BitOr(a \div 2, b \div 2)

\* ------------------------------------------------------------------------
\* Hash utility.  _hash_to_int is SHA-256 truncated to 64 bits; the tables
\* use it only through `hash % modulus`.  A key of the model stands for a
\* key with the listed hash value under each salt; the values are picked so
\* that keys 1 and 2 meet in one bucket at every modulus 2, 3, 4, and key 3
\* joins them at modulus 3 only.
\* ------------------------------------------------------------------------
HashLbtTable == <<0, 12, 3, 25>>
HashP2c1Table == <<0, 1, 2, 3>>
HashP2c2Table == <<1, 1, 0, 2>>
HashVstTable == <<1, 0, 3, 2>>

HashToInt(salt, k) ==
    CASE salt = "lbt:" -> HashLbtTable[k]
      [] salt = "p2c1:" -> HashP2c1Table[k]
      [] salt = "p2c2:" -> HashP2c2Table[k]
      [] salt = "vst_container:" -> HashVstTable[k]

\* ------------------------------------------------------------------------
\* LoadBalancingTable (building_blocks.py)
\* ------------------------------------------------------------------------
\* delta is kept in hundredths.  bucket_size_float = (1/delta^2)*log2(1/delta)
\* is a floating-point value; LbtBucketSizeCeil lists int(math.ceil(.)) of it
\* for the deltas the model constructs tables with.
LbtBucketSizeCeil(deltaPct) ==
    CASE deltaPct = 100 -> 0
      [] deltaPct = 81 -> 1
      [] deltaPct = 64 -> 2
      [] deltaPct = 50 -> 4
      [] deltaPct = 30 -> 20
      [] deltaPct = 25 -> 32

NewLoadBalancingTable(num_slots, deltaPct) ==
    LET bucket_size == Max(2, LbtBucketSizeCeil(deltaPct))
        nb == CeilDiv(num_slots, bucket_size)
        num_buckets == IF nb = 0 THEN 1 ELSE nb
        n == num_buckets * bucket_size
    IN  [bucket_size |-> bucket_size,
         num_buckets |-> num_buckets,
         n |-> n,
         store |-> [pos \in 0..(n - 1) |-> None],
         owner_info |-> [pos \in 0..(n - 1) |-> None],
         p_bits |-> CeilLog2(bucket_size)]

\* LbtGetBucketIndex that moves on by the number of entries the table holds
LbtGetBucketIndexByLoad(t, k) ==
    (HashToInt("lbt:", k)
       + Cardinality({pos \in DOMAIN t.owner_info : t.owner_info[pos] # None}))
    % t.num_buckets

LbtGetBucketIndex(t, k) == HashToInt("lbt:", k) % t.num_buckets

\* first i in range(bucket_size) whose owner record is None, as <<i>>, or None
LbtFirstEmpty(t, start_pos) ==
    LET free == {i \in 0..(t.bucket_size - 1) : t.owner_info[start_pos + i] = None}
    IN  IF free = {} THEN None
        ELSE <<CHOOSE i \in free : \A j \in free : i <= j>>

\* LbtAllocate whose scan runs on past the end of the bucket
LbtAllocateSpills(t, k, value) ==
    LET bucket_idx == LbtGetBucketIndex(t, k)
        start_pos == bucket_idx * t.bucket_size
        free == {i \in 0..(t.n - start_pos - 1) : t.owner_info[start_pos + i] = None}
    IN  IF free # {}
        THEN LET p == CHOOSE i \in free : \A j \in free : i <= j
                 pos == start_pos + p
             IN  [t |-> [t EXCEPT !.store[pos] = <<value>>,
                                  !.owner_info[pos] = <<k, p>>],
                  ret |-> <<p>>]
        ELSE [t |-> t, ret |-> None]

LbtAllocate(t, k, value) ==
    LET bucket_idx == LbtGetBucketIndex(t, k)
        start_pos == bucket_idx * t.bucket_size
        f == LbtFirstEmpty(t, start_pos)
    IN  IF f # None
        THEN LET p == f[1]
                 pos == start_pos + p
             IN  [t |-> [t EXCEPT !.store[pos] = <<value>>,
                                  !.owner_info[pos] = <<k, p>>],
                  ret |-> <<p>>]
        ELSE [t |-> t, ret |-> None]

LbtPos(t, k, p) == LbtGetBucketIndex(t, k) * t.bucket_size + p

\* LbtDereference without the comparison of the owner record
LbtDereferenceAnyOwner(t, k, p) ==
    IF ~(0 <= p /\ p < t.bucket_size)
    THEN [err |-> "InvalidPointer", val |-> None]
    ELSE LET pos == LbtPos(t, k, p)
             info == t.owner_info[pos]
         IN  IF info = None
             THEN [err |-> "NotAllocated", val |-> None]
             ELSE [err |-> "", val |-> t.store[pos]]

LbtDereference(t, k, p) ==
    IF ~(0 <= p /\ p < t.bucket_size)
    THEN [err |-> "InvalidPointer", val |-> None]
    ELSE LET pos == LbtPos(t, k, p)
             info == t.owner_info[pos]
         IN  IF info = None
             THEN [err |-> "NotAllocated", val |-> None]
             ELSE IF info[1] # k \/ info[2] # p
                  THEN [err |-> "OwnershipMismatch", val |-> None]
                  ELSE [err |-> "", val |-> t.store[pos]]

\* LbtFree with the owner record left in place (only the value is cleared)
LbtFreeKeepsOwner(t, k, p) ==
    IF ~(0 <= p /\ p < t.bucket_size)
    THEN [t |-> t, err |-> "InvalidPointer"]
    ELSE LET pos == LbtPos(t, k, p)
             info == t.owner_info[pos]
         IN  IF info = None
             THEN [t |-> t, err |-> "NotAllocated"]
             ELSE IF info[1] # k \/ info[2] # p
                  THEN [t |-> t, err |-> "OwnershipMismatch"]
                  ELSE [t |-> [t EXCEPT !.store[pos] = None], err |-> ""]

LbtFree(t, k, p) ==
    IF ~(0 <= p /\ p < t.bucket_size)
    THEN [t |-> t, err |-> "InvalidPointer"]
    ELSE LET pos == LbtPos(t, k, p)
             info == t.owner_info[pos]
         IN  IF info = None
             THEN [t |-> t, err |-> "NotAllocated"]
             ELSE IF info[1] # k \/ info[2] # p
                  THEN [t |-> t, err |-> "OwnershipMismatch"]
                  ELSE [t |-> [t EXCEPT !.store[pos] = None,
                                        !.owner_info[pos] = None],
                        err |-> ""]

\* ------------------------------------------------------------------------
\* PowerOfTwoChoicesDerefTable (building_blocks.py)
\* ------------------------------------------------------------------------
\* int(math.ceil(math.log2(log_n))) with log_n = log2(num_slots) for
\* num_slots > 1 and 1 otherwise: the least m with 2^(2^m) >= num_slots.
CeilLog2Log2(num_slots) ==
    IF num_slots <= 1 THEN 0
    ELSE CHOOSE m \in 0..4 : Pow2(Pow2(m)) >= num_slots
                             /\ \A j \in 0..(m - 1) : Pow2(Pow2(j)) < num_slots

\* NewPowerOfTwoChoicesDerefTable whose counters start at 1
NewPowerOfTwoChoicesDerefTableOffByOne(num_slots) ==
    LET bucket_size == Max(2, CeilLog2Log2(num_slots))
        nb == CeilDiv(num_slots, bucket_size)
        num_buckets == IF nb < 2 THEN 2 ELSE nb
        n == num_buckets * bucket_size
        p_slot_bits == CeilLog2(bucket_size)
    IN  [bucket_size |-> bucket_size,
         num_buckets |-> num_buckets,
         n |-> n,
         store |-> [pos \in 0..(n - 1) |-> None],
         owner_info |-> [pos \in 0..(n - 1) |-> None],
         bucket_occupancy |-> [b \in 0..(num_buckets - 1) |-> 1],
         p_slot_bits |-> p_slot_bits,
         p_slot_mask |-> ShiftLeft(1, p_slot_bits) - 1]

NewPowerOfTwoChoicesDerefTable(num_slots) ==
    LET bucket_size == Max(2, CeilLog2Log2(num_slots))
        nb == CeilDiv(num_slots, bucket_size)
        num_buckets == IF nb < 2 THEN 2 ELSE nb
        n == num_buckets * bucket_size
        p_slot_bits == CeilLog2(bucket_size)
    IN  [bucket_size |-> bucket_size,
         num_buckets |-> num_buckets,
         n |-> n,
         store |-> [pos \in 0..(n - 1) |-> None],
         owner_info |-> [pos \in 0..(n - 1) |-> None],
         bucket_occupancy |-> [b \in 0..(num_buckets - 1) |-> 0],
         p_slot_bits |-> p_slot_bits,
         p_slot_mask |-> ShiftLeft(1, p_slot_bits) - 1]

\* P2cGetBucketIndices without the step that makes the buckets distinct
P2cGetBucketIndicesRaw(t, k) ==
    LET h1 == HashToInt("p2c1:", k) % t.num_buckets
        h2 == HashToInt("p2c2:", k) % t.num_buckets
    IN  <<h1, h2>>

P2cGetBucketIndices(t, k) ==
    LET h1 == HashToInt("p2c1:", k) % t.num_buckets
        h2 == HashToInt("p2c2:", k) % t.num_buckets
    IN  IF h1 = h2 THEN <<h1, (h1 + 1) % t.num_buckets>> ELSE <<h1, h2>>

\* P2cAllocate that prefers the fuller candidate bucket
P2cAllocateFullerFirst(t, k, value) ==
    LET b == P2cGetBucketIndices(t, k)
        first == t.bucket_occupancy[b[1]] >= t.bucket_occupancy[b[2]]
        chosen_bucket_idx == IF first THEN b[1] ELSE b[2]
        p_bucket_choice == IF first THEN 0 ELSE 1
        start_pos == chosen_bucket_idx * t.bucket_size
        f == LbtFirstEmpty(t, start_pos)
    IN  IF t.bucket_occupancy[chosen_bucket_idx] >= t.bucket_size
        THEN [t |-> t, ret |-> None]
        ELSE IF f # None
             THEN LET p_slot == f[1]
                      pos == start_pos + p_slot
                      p == BitOr(ShiftLeft(p_bucket_choice, t.p_slot_bits), p_slot)
                  IN  [t |-> [t EXCEPT !.store[pos] = <<value>>,
                                       !.owner_info[pos] = <<k, p>>,
                                       !.bucket_occupancy[chosen_bucket_idx] = @ + 1],
                       ret |-> <<p>>]
             ELSE [t |-> t, ret |-> None]

P2cAllocate(t, k, value) ==
    LET b == P2cGetBucketIndices(t, k)
        first == t.bucket_occupancy[b[1]] <= t.bucket_occupancy[b[2]]
        chosen_bucket_idx == IF first THEN b[1] ELSE b[2]
        p_bucket_choice == IF first THEN 0 ELSE 1
        start_pos == chosen_bucket_idx * t.bucket_size
        f == LbtFirstEmpty(t, start_pos)
    IN  IF t.bucket_occupancy[chosen_bucket_idx] >= t.bucket_size
        THEN [t |-> t, ret |-> None]
        ELSE IF f # None
             THEN LET p_slot == f[1]
                      pos == start_pos + p_slot
                      p == BitOr(ShiftLeft(p_bucket_choice, t.p_slot_bits), p_slot)
                  IN  [t |-> [t EXCEPT !.store[pos] = <<value>>,
                                       !.owner_info[pos] = <<k, p>>,
                                       !.bucket_occupancy[chosen_bucket_idx] = @ + 1],
                       ret |-> <<p>>]
             ELSE [t |-> t, ret |-> None]

\* P2cDecodePointer that takes the emptier candidate bucket for choice 0
P2cDecodePointerByLoad(t, k, p) ==
    LET p_bucket_choice == ShiftRight(p, t.p_slot_bits)
        p_slot == BitAnd(p, t.p_slot_mask)
        b == P2cGetBucketIndices(t, k)
        emptier == IF t.bucket_occupancy[b[1]] <= t.bucket_occupancy[b[2]]
                   THEN b[1] ELSE b[2]
        chosen_bucket_idx == IF p_bucket_choice = 0 THEN emptier ELSE b[2]
    IN  IF p_slot >= t.bucket_size THEN None
        ELSE <<chosen_bucket_idx * t.bucket_size + p_slot>>

\* <<pos>>, or None when _decode_pointer raises KeyError
P2cDecodePointer(t, k, p) ==
    LET p_bucket_choice == ShiftRight(p, t.p_slot_bits)
        p_slot == BitAnd(p, t.p_slot_mask)
        b == P2cGetBucketIndices(t, k)
        chosen_bucket_idx == IF p_bucket_choice = 0 THEN b[1] ELSE b[2]
    IN  IF p_slot >= t.bucket_size THEN None
        ELSE <<chosen_bucket_idx * t.bucket_size + p_slot>>

\* P2cDereference that reports an empty slot as an ownership mismatch
P2cDereferenceMismatchFirst(t, k, p) ==
    LET d == P2cDecodePointer(t, k, p)
    IN  IF d = None
        THEN [err |-> "InvalidPointer", val |-> None]
        ELSE LET pos == d[1]
                 info == t.owner_info[pos]
             IN  IF info = None \/ info[1] # k \/ info[2] # p
                 THEN [err |-> "OwnershipMismatch", val |-> None]
                 ELSE [err |-> "", val |-> t.store[pos]]

P2cDereference(t, k, p) ==
    LET d == P2cDecodePointer(t, k, p)
    IN  IF d = None
        THEN [err |-> "InvalidPointer", val |-> None]
        ELSE LET pos == d[1]
                 info == t.owner_info[pos]
             IN  IF info = None
                 THEN [err |-> "NotAllocated", val |-> None]
                 ELSE IF info[1] # k \/ info[2] # p
                      THEN [err |-> "OwnershipMismatch", val |-> None]
                      ELSE [err |-> "", val |-> t.store[pos]]

\* P2cFree that lowers the bucket counter before it examines the slot
P2cFreeCountsFirst(t, k, p) ==
    LET d == P2cDecodePointer(t, k, p)
    IN  IF d = None
        THEN [t |-> t, err |-> "InvalidPointer"]
        ELSE LET pos == d[1]
                 info == t.owner_info[pos]
                 bucket_idx == pos \div t.bucket_size
                 t1 == [t EXCEPT !.bucket_occupancy[bucket_idx] = @ - 1]
             IN  IF info = None
                 THEN [t |-> t1, err |-> "NotAllocated"]
                 ELSE IF info[1] # k \/ info[2] # p
                      THEN [t |-> t1, err |-> "OwnershipMismatch"]
                      ELSE [t |-> [t1 EXCEPT !.store[pos] = None,
                                             !.owner_info[pos] = None],
                            err |-> ""]

P2cFree(t, k, p) ==
    LET d == P2cDecodePointer(t, k, p)
    IN  IF d = None
        THEN [t |-> t, err |-> "InvalidPointer"]
        ELSE LET pos == d[1]
                 info == t.owner_info[pos]
                 bucket_idx == pos \div t.bucket_size
             IN  IF info = None
                 THEN [t |-> t, err |-> "NotAllocated"]
                 ELSE IF info[1] # k \/ info[2] # p
                      THEN [t |-> t, err |-> "OwnershipMismatch"]
                      ELSE [t |-> [t EXCEPT !.store[pos] = None,
                                            !.owner_info[pos] = None,
                                            !.bucket_occupancy[bucket_idx] = @ - 1],
                            err |-> ""]

\* ------------------------------------------------------------------------
\* FixedSizeDerefTable (fixed_size_table.py)
\* ------------------------------------------------------------------------
\* Constructor arguments of the table under test: n and delta (hundredths).
FixedN == 10
FixedDeltaPct == 80

NewFixedSizeDerefTable(n, deltaPct) ==
    LET secondary_slots == CeilDiv(n * deltaPct, 200)
        primary_slots == n - secondary_slots
        primary == NewLoadBalancingTable(primary_slots, (deltaPct * deltaPct) \div 100)
        secondary == NewPowerOfTwoChoicesDerefTable(secondary_slots)
        primary_p_bits == primary.p_bits
        secondary_p_bits == 1 + secondary.p_slot_bits
    IN  [n |-> n,
         primary |-> primary,
         secondary |-> secondary,
         primary_p_bits |-> primary_p_bits,
         secondary_p_bits |-> secondary_p_bits,
         max_p_bits |-> Max(primary_p_bits, secondary_p_bits) + 1]

\* FixedAllocate that sets the origin flag one bit higher
FixedAllocateHighFlag(t, k, value) ==
    LET r1 == LbtAllocate(t.primary, k, value)
        r2 == P2cAllocate(t.secondary, k, value)
    IN  IF r1.ret # None
        THEN [t |-> [t EXCEPT !.primary = r1.t], ret |-> r1.ret, err |-> ""]
        ELSE IF r2.ret # None
             THEN [t |-> [t EXCEPT !.secondary = r2.t],
                   ret |-> <<BitOr(ShiftLeft(1, t.max_p_bits), r2.ret[1])>>,
                   err |-> ""]
             ELSE [t |-> t, ret |-> None, err |-> "AllocationFailed"]

\* err = "AllocationFailed" when the exception of that name is raised
FixedAllocate(t, k, value) ==
    LET r1 == LbtAllocate(t.primary, k, value)
        r2 == P2cAllocate(t.secondary, k, value)
    IN  IF r1.ret # None
        THEN [t |-> [t EXCEPT !.primary = r1.t], ret |-> r1.ret, err |-> ""]
        ELSE IF r2.ret # None
             THEN [t |-> [t EXCEPT !.secondary = r2.t],
                   ret |-> <<BitOr(ShiftLeft(1, t.max_p_bits - 1), r2.ret[1])>>,
                   err |-> ""]
             ELSE [t |-> t, ret |-> None, err |-> "AllocationFailed"]

\* FixedDecodePointer reading the origin flag one bit too high
FixedDecodePointerShifted(t, p) ==
    LET is_secondary == ShiftRight(p, t.max_p_bits) = 1
        mask == ShiftLeft(1, t.max_p_bits - 1) - 1
    IN  IF is_secondary THEN <<TRUE, BitAnd(p, mask)>> ELSE <<FALSE, p>>

\* <<is_secondary, pointer_value>>
FixedDecodePointer(t, p) ==
    LET is_secondary == ShiftRight(p, t.max_p_bits - 1) = 1
        mask == ShiftLeft(1, t.max_p_bits - 1) - 1
    IN  IF is_secondary THEN <<TRUE, BitAnd(p, mask)>> ELSE <<FALSE, p>>

FixedDereference(t, k, p) ==
    LET d == FixedDecodePointer(t, p)
    IN  IF d[1] THEN P2cDereference(t.secondary, k, d[2])
        ELSE LbtDereference(t.primary, k, d[2])

\* FixedFree that hands the whole pointer to the secondary table
FixedFreeUnmasked(t, k, p) ==
    LET d == FixedDecodePointer(t, p)
        rs == P2cFree(t.secondary, k, p)
        rp == LbtFree(t.primary, k, d[2])
    IN  IF d[1] THEN [t |-> [t EXCEPT !.secondary = rs.t], err |-> rs.err]
        ELSE [t |-> [t EXCEPT !.primary = rp.t], err |-> rp.err]

FixedFree(t, k, p) ==
    LET d == FixedDecodePointer(t, p)
        rs == P2cFree(t.secondary, k, d[2])
        rp == LbtFree(t.primary, k, d[2])
    IN  IF d[1] THEN [t |-> [t EXCEPT !.secondary = rs.t], err |-> rs.err]
        ELSE [t |-> [t EXCEPT !.primary = rp.t], err |-> rp.err]

FixedGetTinyPointerSizeBits(t) == t.max_p_bits

\* ------------------------------------------------------------------------
\* _Container (variable_size_table.py)
\* ------------------------------------------------------------------------
\* The level word of a container pointer is a Python integer of 32 bits:
\* bit 31 is the overflow flag, the bits below are the level index.
\* Wide(flag, idx) stands for the integer flag * 2^31 + idx.
Wide(flag, idx) == [flag |-> flag, idx |-> idx]

\* list[i] of Python for a list of length len: <<index>>, or None when
\* IndexError is raised (negative i counts from the end)
PyIndex(len, i) ==
    IF 0 <= i /\ i < len THEN <<i>>
    ELSE IF -len <= i /\ i < 0 THEN <<len + i>>
    ELSE None

\* int(math.log2(x)) for an integer x >= 1
FloorLog2(x) == CHOOSE m \in 0..30 : Pow2(m) <= x /\ x < Pow2(m + 1)

NewContainer(capacity) ==
    LET num_levels == FloorLog2(capacity) + 1
        slots(i) == capacity \div Pow2(i)
        built == {i \in 0..(num_levels - 1) : \A j \in 0..i : slots(j) # 0}
    IN  [capacity |-> capacity,
         num_items |-> 0,
         levels |-> [i \in built |-> NewLoadBalancingTable(slots(i), 50)],
         overflow_arrays |-> [i \in built |-> [j \in 0..(slots(i) - 1) |-> None]],
         level_slots |-> [i \in built |-> slots(i)],
         level_occupancy |-> [i \in 0..(num_levels - 1) |-> 0]]

NumLevels(c) == Cardinality(DOMAIN c.levels)

\* OverflowFirstEmpty that looks at the first two cells only
OverflowFirstEmptyShort(c, i) ==
    LET free == {j \in DOMAIN c.overflow_arrays[i] :
                    j < 2 /\ c.overflow_arrays[i][j] = None}
    IN  IF free = {} THEN None
        ELSE <<CHOOSE j \in free : \A j2 \in free : j <= j2>>

\* first j with overflow_arrays[i][j] None, as <<j>>, or None
OverflowFirstEmpty(c, i) ==
    LET free == {j \in DOMAIN c.overflow_arrays[i] : c.overflow_arrays[i][j] = None}
    IN  IF free = {} THEN None
        ELSE <<CHOOSE j \in free : \A j2 \in free : j <= j2>>

\* ContainerAllocateFrom that uses the overflow array of level 1 without
\* looking at level 2
RECURSIVE ContainerAllocateFromEager(_, _, _, _)
ContainerAllocateFromEager(c, k, value, i) ==
    IF i >= NumLevels(c)
    THEN [c |-> c, ret |-> None, err |-> "RuntimeError"]
    ELSE LET c1 == [c EXCEPT !.level_occupancy[i] = @ + 1]
             r == LbtAllocate(c1.levels[i], k, value)
             next_level_occupancy ==
                 IF i + 1 < NumLevels(c) THEN c1.level_occupancy[i + 1] ELSE 0
             next_level_slots ==
                 IF i + 1 < NumLevels(c) THEN c1.level_slots[i + 1] ELSE 0
             f == OverflowFirstEmpty(c1, i)
         IN  IF r.ret # None
             THEN [c |-> [c1 EXCEPT !.levels[i] = r.t],
                   ret |-> <<Wide(0, i), r.ret[1]>>, err |-> ""]
             ELSE IF next_level_occupancy >= next_level_slots \/ i = 1
                  THEN IF f # None
                       THEN [c |-> [c1 EXCEPT !.overflow_arrays[i][f[1]] = <<k, value>>],
                             ret |-> <<Wide(1, i), f[1]>>, err |-> ""]
                       ELSE [c |-> c1, ret |-> None, err |-> "RuntimeError"]
                  ELSE ContainerAllocateFromEager(c1, k, value, i + 1)

\* the loop `for i in range(len(self.levels))` of allocate, from level i on;
\* a RuntimeError leaves the counters as they were incremented so far
RECURSIVE ContainerAllocateFrom(_, _, _, _)
ContainerAllocateFrom(c, k, value, i) ==
    IF i >= NumLevels(c)
    THEN [c |-> c, ret |-> None, err |-> "RuntimeError"]
    ELSE LET c1 == [c EXCEPT !.level_occupancy[i] = @ + 1]
             r == LbtAllocate(c1.levels[i], k, value)
             next_level_occupancy ==
                 IF i + 1 < NumLevels(c) THEN c1.level_occupancy[i + 1] ELSE 0
             next_level_slots ==
                 IF i + 1 < NumLevels(c) THEN c1.level_slots[i + 1] ELSE 0
             f == OverflowFirstEmpty(c1, i)
         IN  IF r.ret # None
             THEN [c |-> [c1 EXCEPT !.levels[i] = r.t],
                   ret |-> <<Wide(0, i), r.ret[1]>>, err |-> ""]
             ELSE IF next_level_occupancy >= next_level_slots
                  THEN IF f # None
                       THEN [c |-> [c1 EXCEPT !.overflow_arrays[i][f[1]] = <<k, value>>],
                             ret |-> <<Wide(1, i), f[1]>>, err |-> ""]
                       ELSE [c |-> c1, ret |-> None, err |-> "RuntimeError"]
                  ELSE ContainerAllocateFrom(c1, k, value, i + 1)

\* ContainerAllocate that refuses only above the capacity
ContainerAllocateOverfull(c, k, value) ==
    IF c.num_items > c.capacity
    THEN [c |-> c, ret |-> None, err |-> ""]
    ELSE ContainerAllocateFrom([c EXCEPT !.num_items = @ + 1], k, value, 0)

ContainerAllocate(c, k, value) ==
    IF c.num_items >= c.capacity
    THEN [c |-> c, ret |-> None, err |-> ""]
    ELSE ContainerAllocateFrom([c EXCEPT !.num_items = @ + 1], k, value, 0)

ContainerDereference(c, k, p_container) ==
    LET level == p_container[1]
        p_level == p_container[2]
        is_overflow == level.flag # 0
        level_idx == level.idx
        li == PyIndex(NumLevels(c), level_idx)
    IN  IF li = None THEN [err |-> "IndexError", val |-> None]
        ELSE IF is_overflow
        THEN LET arr == c.overflow_arrays[li[1]]
                 ji == PyIndex(Cardinality(DOMAIN arr), p_level)
             IN  IF ji = None THEN [err |-> "IndexError", val |-> None]
                 ELSE IF arr[ji[1]] = None
                 THEN [err |-> "NotAllocated", val |-> None]
                 ELSE IF arr[ji[1]][1] # k
                 THEN [err |-> "OwnershipMismatch", val |-> None]
                 ELSE [err |-> "", val |-> <<arr[ji[1]][2]>>]
        ELSE LbtDereference(c.levels[li[1]], k, p_level)

\* ContainerReleaseCounters that lowers the counter of level_idx only
ContainerReleaseCountersOne(c, level_idx) ==
    [c EXCEPT !.num_items = @ - 1,
              !.level_occupancy = [i \in DOMAIN @ |->
                                      IF i = level_idx THEN @[i] - 1 ELSE @[i]]]

\* the counters after a successful free at level_idx
ContainerReleaseCounters(c, level_idx) ==
    [c EXCEPT !.num_items = @ - 1,
              !.level_occupancy = [i \in DOMAIN @ |->
                                      IF i <= level_idx THEN @[i] - 1 ELSE @[i]]]

\* ContainerFree that lowers the counters before it examines the slot
ContainerFreeCountsFirst(c, k, p_container) ==
    LET level == p_container[1]
        p_level == p_container[2]
        is_overflow == level.flag # 0
        level_idx == level.idx
        li == PyIndex(NumLevels(c), level_idx)
        c1 == IF li = None THEN c ELSE ContainerReleaseCounters(c, li[1])
    IN  IF li = None THEN [c |-> c, err |-> "IndexError"]
        ELSE IF is_overflow
        THEN LET arr == c.overflow_arrays[li[1]]
                 ji == PyIndex(Cardinality(DOMAIN arr), p_level)
             IN  IF ji = None THEN [c |-> c1, err |-> "IndexError"]
                 ELSE IF arr[ji[1]] = None
                 THEN [c |-> c1, err |-> "NotAllocated"]
                 ELSE IF arr[ji[1]][1] # k
                 THEN [c |-> c1, err |-> "OwnershipMismatch"]
                 ELSE [c |-> [c1 EXCEPT !.overflow_arrays[li[1]][ji[1]] = None],
                       err |-> ""]
        ELSE LET r == LbtFree(c.levels[li[1]], k, p_level)
             IN  [c |-> [c1 EXCEPT !.levels[li[1]] = r.t], err |-> r.err]

ContainerFree(c, k, p_container) ==
    LET level == p_container[1]
        p_level == p_container[2]
        is_overflow == level.flag # 0
        level_idx == level.idx
        li == PyIndex(NumLevels(c), level_idx)
    IN  IF li = None THEN [c |-> c, err |-> "IndexError"]
        ELSE IF is_overflow
        THEN LET arr == c.overflow_arrays[li[1]]
                 ji == PyIndex(Cardinality(DOMAIN arr), p_level)
             IN  IF ji = None THEN [c |-> c, err |-> "IndexError"]
                 ELSE IF arr[ji[1]] = None
                 THEN [c |-> c, err |-> "NotAllocated"]
                 ELSE IF arr[ji[1]][1] # k
                 THEN [c |-> c, err |-> "OwnershipMismatch"]
                 ELSE [c |-> ContainerReleaseCounters(
                                [c EXCEPT !.overflow_arrays[li[1]][ji[1]] = None],
                                level_idx),
                       err |-> ""]
        ELSE LET r == LbtFree(c.levels[li[1]], k, p_level)
             IN  IF r.err # "" THEN [c |-> c, err |-> r.err]
                 ELSE [c |-> ContainerReleaseCounters(
                                [c EXCEPT !.levels[li[1]] = r.t], level_idx),
                       err |-> ""]

\* ------------------------------------------------------------------------
\* VariableSizeDerefTable (variable_size_table.py)
\* ------------------------------------------------------------------------
\* Constructor argument of the table under test.
VarN == 2

RECURSIVE Power(_, _)
Power(b, e) == IF e <= 0 THEN 1 ELSE b * Power(b, e - 1)

\* int(4 * math.log2(n)) = floor(log2(n^4)), for n > 1
Int4Log2(n) == FloorLog2(Power(n, 4))

\* math.ceil(n / math.log2(n)): the least m with n^m >= 2^n, for n > 1
CeilNOverLog2(n) ==
    CHOOSE m \in 1..n : Power(n, m) >= Pow2(n)
                        /\ \A j \in 1..(m - 1) : Power(n, j) < Pow2(n)

NewVariableSizeDerefTable(n) ==
    LET container_capacity == Max(16, IF n > 1 THEN Int4Log2(n) ELSE 16)
        num_containers == IF n > 1 THEN CeilNOverLog2(n) ELSE 1
    IN  [n_items |-> n,
         container_capacity |-> container_capacity,
         num_containers |-> num_containers,
         containers |-> [ci \in 0..(num_containers - 1) |->
                            NewContainer(container_capacity)]]

VstGetContainerIndex(t, k) == HashToInt("vst_container:", k) % t.num_containers

\* The global pointer is a Python integer of 64 bits and more; it is kept
\* as its three fields: c = bits 48 and up, l = bits 32..47, p = bits 0..31.
GlobalPointer(c, l, p) == [c |-> c, l |-> l, p |-> p]

\* (container_idx << 48) | (level << 32) | p_level.  level << 32 puts the
\* low 16 bits of the level word into field l; bits 16..30 of the level
\* index and the flag bit 31 land on bits 48..63, inside field c.
VstPack(container_idx, level, p_level) ==
    GlobalPointer(
        BitOr(container_idx,
              BitOr(ShiftRight(level.idx, 16), ShiftLeft(level.flag, 15))),
        BitOr(level.idx % 65536, ShiftRight(p_level, 32)),
        p_level)

VstAllocate(t, k, value) ==
    LET container_idx == VstGetContainerIndex(t, k)
        r == ContainerAllocate(t.containers[container_idx], k, value)
        t1 == [t EXCEPT !.containers[container_idx] = r.c]
    IN  IF r.err # "" THEN [t |-> t1, ret |-> None, err |-> r.err]
        ELSE IF r.ret = None
        THEN [t |-> t1, ret |-> None, err |-> "AllocationFailed"]
        ELSE [t |-> t1, ret |-> <<VstPack(container_idx, r.ret[1], r.ret[2])>>,
              err |-> ""]

\* <<container_idx, <<level, p_level>>>>; (p >> 32) & 0xFFFF is field l,
\* so the decoded level word never carries the flag bit
VstDecodePointer(p) == <<p.c, <<Wide(0, p.l), p.p>>>>

VstDereference(t, k, p) ==
    LET d == VstDecodePointer(p)
        ci == PyIndex(t.num_containers, d[1])
    IN  IF d[1] >= t.num_containers
        THEN [err |-> "InvalidPointer", val |-> None]
        ELSE IF ci = None THEN [err |-> "IndexError", val |-> None]
        ELSE ContainerDereference(t.containers[ci[1]], k, d[2])

VstFree(t, k, p) ==
    LET d == VstDecodePointer(p)
        ci == PyIndex(t.num_containers, d[1])
    IN  IF d[1] >= t.num_containers
        THEN [t |-> t, err |-> "InvalidPointer"]
        ELSE IF ci = None THEN [t |-> t, err |-> "IndexError"]
        ELSE LET r == ContainerFree(t.containers[ci[1]], k, d[2])
             IN  [t |-> [t EXCEPT !.containers[ci[1]] = r.c], err |-> r.err]

\* ------------------------------------------------------------------------
\* DerefTable, the auto-resizing prototype (deref_table.py)
\* ------------------------------------------------------------------------
\* _hash_u64 is SHA-256 truncated to 64 bits; the table uses the two seeds
\* of a key only through (seed1 + p * step) % n.  The tables list, for the
\* keys 1..4, seed1 % 32 and (seed2 | 1) % 32: the position is exact for
\* every n that divides DerefHashModulus.
DerefHashModulus == 32
DerefSeed1Table == <<22, 7, 5, 9>>
DerefStepTable == <<17, 19, 15, 27>>

DerefOwnerSeeds(k) == <<DerefSeed1Table[k], DerefStepTable[k]>>

\* list(range(max_candidates)) shuffled by random.Random(seed of the key),
\* for the keys 1..4
DerefPSequence(k, max_candidates) ==
    CASE max_candidates = 1 -> <<0>>
      [] max_candidates = 2 ->
           <<<<1, 0>>, <<0, 1>>, <<0, 1>>, <<1, 0>>>>[k]
      [] max_candidates = 4 ->
           <<<<3, 0, 2, 1>>, <<2, 1, 0, 3>>, <<2, 0, 1, 3>>, <<0, 2, 3, 1>>>>[k]
      [] max_candidates = 5 ->
           <<<<3, 0, 2, 1, 4>>, <<0, 2, 4, 1, 3>>,
             <<4, 1, 0, 2, 3>>, <<0, 2, 4, 3, 1>>>>[k]

\* math.isqrt
IntSqrt(n) == CHOOSE r \in 0..n : r * r <= n /\ (r + 1) * (r + 1) > n

DerefUpdateCandidates(t) ==
    LET max_candidates == Max(1, IntSqrt(t.n))
        p_bits == CeilLog2(max_candidates)
    IN  [t EXCEPT !.max_candidates = max_candidates,
                  !.p_bits = p_bits,
                  !.p_mask = ShiftLeft(1, p_bits) - 1]

\* DerefTable(n) with max_probes=None; owner_to_ps maps a key that was
\* never seen to the empty set (no method tells the two apart)
NewDerefTable(n) ==
    LET t == DerefUpdateCandidates(
                 [n |-> n, max_candidates |-> 0, p_bits |-> 0, p_mask |-> 0])
    IN  [n |-> n,
         max_candidates |-> t.max_candidates,
         p_bits |-> t.p_bits,
         p_mask |-> t.p_mask,
         max_probes |-> t.max_candidates,
         A |-> [pos \in 0..(n - 1) |-> None],
         owner_info |-> [pos \in 0..(n - 1) |-> None],
         owner_to_ps |-> [k \in 1..4 |-> {}]]

DerefPosFor(t, k, p) ==
    LET s == DerefOwnerSeeds(k)
    IN  (s[1] + p * s[2]) % t.n

\* _rehash_all that leaves every entry at the position it had
DerefRehashAllInPlace(t, old_A, old_owner_info) ==
    [t EXCEPT !.A = [np \in DOMAIN t.A |->
                         IF np \in DOMAIN old_A THEN old_A[np] ELSE None],
              !.owner_info = [np \in DOMAIN t.owner_info |->
                                 IF np \in DOMAIN old_owner_info
                                 THEN old_owner_info[np] ELSE None]]

\* the old positions are visited in increasing order: of several entries
\* moved to one new position the last one stays
DerefRehashAll(t, old_A, old_owner_info) ==
    LET Src(np) == {pos \in DOMAIN old_owner_info :
                       /\ old_owner_info[pos] # None
                       /\ DerefPosFor(t, old_owner_info[pos][1],
                                      old_owner_info[pos][2]) = np}
        Last(S) == CHOOSE pos \in S : \A q \in S : q <= pos
    IN  [t EXCEPT !.A = [np \in DOMAIN t.A |->
                            IF Src(np) = {} THEN None ELSE old_A[Last(Src(np))]],
                  !.owner_info = [np \in DOMAIN t.owner_info |->
                                     IF Src(np) = {} THEN None
                                     ELSE old_owner_info[Last(Src(np))]]]

DerefResize(t) ==
    LET t1 == DerefUpdateCandidates([t EXCEPT !.n = 2 * t.n])
        t2 == [t1 EXCEPT !.max_probes = t1.max_candidates,
                         !.A = [pos \in 0..(t1.n - 1) |-> None],
                         !.owner_info = [pos \in 0..(t1.n - 1) |-> None]]
    IN  DerefRehashAll(t2, t.A, t.owner_info)

\* the first p of the key's sequence, among its first max_probes elements,
\* whose position has no owner record, as <<p>>, or None
DerefScan(t, k) ==
    LET seq == DerefPSequence(k, t.max_candidates)
        hit == {i \in 1..Len(seq) :
                   /\ i <= t.max_probes
                   /\ t.owner_info[DerefPosFor(t, k, seq[i])] = None}
    IN  IF hit = {} THEN None
        ELSE <<seq[CHOOSE i \in hit : \A j \in hit : i <= j]>>

DerefPlace(t, k, p, value) ==
    LET pos == DerefPosFor(t, k, p)
    IN  [t EXCEPT !.A[pos] = <<value>>,
                  !.owner_info[pos] = <<k, p>>,
                  !.owner_to_ps[k] = @ \cup {p}]

\* err = "AllocationError" when the exception of that name is raised (the
\* table has been doubled by then)
DerefAllocate(t, k, value) ==
    LET f == DerefScan(t, k)
        t2 == DerefResize(t)
        f2 == DerefScan(t2, k)
    IN  IF f # None
        THEN [t |-> DerefPlace(t, k, f[1], value), ret |-> f, err |-> ""]
        ELSE IF f2 # None
        THEN [t |-> DerefPlace(t2, k, f2[1], value), ret |-> f2, err |-> ""]
        ELSE [t |-> t2, ret |-> None, err |-> "AllocationError"]

DerefDereference(t, k, p) ==
    IF p < 0 \/ p >= t.max_candidates
    THEN [err |-> "InvalidPointer", val |-> None]
    ELSE LET pos == DerefPosFor(t, k, p)
             info == t.owner_info[pos]
         IN  IF info = None
             THEN [err |-> "NotAllocated", val |-> None]
             ELSE IF info[1] # k \/ info[2] # p
                  THEN [err |-> "OwnershipMismatch", val |-> None]
                  ELSE [err |-> "", val |-> t.A[pos]]

DerefFree(t, k, p) ==
    IF p < 0 \/ p >= t.max_candidates
    THEN [t |-> t, err |-> "InvalidPointer"]
    ELSE LET pos == DerefPosFor(t, k, p)
             info == t.owner_info[pos]
         IN  IF info = None
             THEN [t |-> t, err |-> "NotAllocated"]
             ELSE IF info[1] # k \/ info[2] # p
                  THEN [t |-> t, err |-> "OwnershipMismatch"]
                  ELSE [t |-> [t EXCEPT !.owner_info[pos] = None,
                                        !.A[pos] = None,
                                        !.owner_to_ps[k] = @ \ {p}],
                        err |-> ""]

\* ------------------------------------------------------------------------
\* TinyHashTable (hash_table.py)
\* ------------------------------------------------------------------------
\* index_table is a dict from key to pointer: a function giving <<p>> for a
\* key it holds and None for a key it does not hold
NewTinyHashTable(initial_capacity) ==
    [deref |-> NewDerefTable(initial_capacity),
     index_table |-> [k \in Keys |-> None]]

\* TinyInsert that keeps the pointer a key already has in index_table
TinyInsertKeepsFirst(h, key, value) ==
    LET r == DerefAllocate(h.deref, key, value)
    IN  IF r.err # ""
        THEN [h |-> [h EXCEPT !.deref = r.t], ret |-> None, err |-> r.err]
        ELSE [h |-> [h EXCEPT !.deref = r.t,
                              !.index_table[key] = IF @ = None THEN r.ret ELSE @],
              ret |-> r.ret, err |-> ""]

\* AllocationError propagates to the caller of insert
TinyInsert(h, key, value) ==
    LET r == DerefAllocate(h.deref, key, value)
    IN  IF r.err # ""
        THEN [h |-> [h EXCEPT !.deref = r.t], ret |-> None, err |-> r.err]
        ELSE [h |-> [h EXCEPT !.deref = r.t, !.index_table[key] = r.ret],
              ret |-> r.ret, err |-> ""]

\* <<value>>, or None
TinyGet(h, key) ==
    LET p == h.index_table[key]
    IN  IF p = None THEN None
        ELSE LET r == DerefDereference(h.deref, key, p[1])
             IN  IF r.err # "" THEN None ELSE r.val

TinyRemove(h, key) ==
    LET p == h.index_table[key]
        h1 == [h EXCEPT !.index_table[key] = None]
    IN  IF p = None THEN [h |-> h1, ret |-> FALSE]
        ELSE LET r == DerefFree(h.deref, key, p[1])
             IN  [h |-> [h1 EXCEPT !.deref = r.t], ret |-> r.err = ""]

TinyLen(h) == Cardinality({k \in DOMAIN h.index_table : h.index_table[k] # None})

\* ------------------------------------------------------------------------
\* SimulationHashTable (UniformHashing/UniformHashScenario.py)
\* ------------------------------------------------------------------------
\* generate_permutation(key, 3) for the integer keys 1..5: the Fisher-Yates
\* shuffle of range(3) driven by random.Random(key)
GeneratePermutation(key, table_size) ==
    CASE table_size = 3 ->
           <<<<1, 2, 0>>, <<1, 2, 0>>, <<1, 2, 0>>, <<2, 1, 0>>, <<0, 1, 2>>>>[key]
      [] table_size = 4 ->
           <<<<3, 0, 2, 1>>, <<1, 2, 3, 0>>, <<3, 0, 2, 1>>,
             <<2, 0, 3, 1>>, <<0, 1, 3, 2>>>>[key]

\* _TOMBSTONE is an object no (key, value) pair is identical to: a slot is
\* None, TOMBSTONE or <<key, value>>
TOMBSTONE == <<0>>

NewSimulationHashTable(m) ==
    [m |-> m, table |-> [idx \in 0..(m - 1) |-> None], size |-> 0]

\* SimInsertLoop that stores at the first tombstone it meets
RECURSIVE SimInsertLoopEager(_, _, _, _, _, _)
SimInsertLoopEager(t, key, value, perm, i, first_tombstone) ==
    IF i > Len(perm)
    THEN [t |-> t, ret |-> None, err |-> "RuntimeError"]
    ELSE LET idx == perm[i]
             slot == t.table[idx]
         IN  IF slot = None \/ slot = TOMBSTONE
             THEN [t |-> [t EXCEPT !.table[idx] = <<key, value>>,
                                   !.size = @ + 1],
                   ret |-> <<i>>, err |-> ""]
             ELSE IF slot[1] = key
             THEN [t |-> [t EXCEPT !.table[idx] = <<key, value>>],
                   ret |-> <<i>>, err |-> ""]
             ELSE SimInsertLoopEager(t, key, value, perm, i + 1, first_tombstone)

\* the loop of insert from the i-th element of the permutation on;
\* first_tombstone is None or <<idx>>
RECURSIVE SimInsertLoop(_, _, _, _, _, _)
SimInsertLoop(t, key, value, perm, i, first_tombstone) ==
    IF i > Len(perm)
    THEN IF first_tombstone # None
         THEN [t |-> [t EXCEPT !.table[first_tombstone[1]] = <<key, value>>,
                               !.size = @ + 1],
               ret |-> <<Len(perm)>>, err |-> ""]
         ELSE [t |-> t, ret |-> None, err |-> "RuntimeError"]
    ELSE LET idx == perm[i]
             slot == t.table[idx]
         IN  IF slot = None
             THEN [t |-> [t EXCEPT
                            !.table[IF first_tombstone # None
                                    THEN first_tombstone[1] ELSE idx] = <<key, value>>,
                            !.size = @ + 1],
                   ret |-> <<i>>, err |-> ""]
             ELSE IF slot = TOMBSTONE
             THEN SimInsertLoop(t, key, value, perm, i + 1,
                                IF first_tombstone = None THEN <<idx>>
                                ELSE first_tombstone)
             ELSE IF slot[1] = key
             THEN [t |-> [t EXCEPT !.table[idx] = <<key, value>>],
                   ret |-> <<i>>, err |-> ""]
             ELSE SimInsertLoop(t, key, value, perm, i + 1, first_tombstone)

\* ret = <<probes>>; err = "RuntimeError" for 'table full' and 'no slot found'
SimInsert(t, key, value) ==
    IF t.size >= t.m
    THEN [t |-> t, ret |-> None, err |-> "RuntimeError"]
    ELSE SimInsertLoop(t, key, value, GeneratePermutation(key, t.m), 1, None)

\* index of the slot at which search and delete stop on the key, as <<idx>>,
\* or None when they stop on an empty slot or at the end of the permutation
RECURSIVE SimFind(_, _, _, _)
SimFind(t, key, perm, i) ==
    IF i > Len(perm) THEN None
    ELSE LET slot == t.table[perm[i]]
         IN  IF slot = None THEN None
             ELSE IF slot = TOMBSTONE THEN SimFind(t, key, perm, i + 1)
             ELSE IF slot[1] = key THEN <<perm[i]>>
             ELSE SimFind(t, key, perm, i + 1)

\* the value part of search's result: <<value>>, or None
SimSearch(t, key) ==
    LET f == SimFind(t, key, GeneratePermutation(key, t.m), 1)
    IN  IF f = None THEN None ELSE <<t.table[f[1]][2]>>

\* ret is the boolean part of delete's result
SimDelete(t, key) ==
    LET f == SimFind(t, key, GeneratePermutation(key, t.m), 1)
    IN  IF f = None THEN [t |-> t, ret |-> FALSE]
        ELSE [t |-> [t EXCEPT !.table[f[1]] = TOMBSTONE, !.size = @ - 1],
              ret |-> TRUE]

\* ------------------------------------------------------------------------
\* TinyAllocator (allocator.py)
\* ------------------------------------------------------------------------
NewTinyAllocator(capacity) == [capacity |-> capacity, used |-> {}]

\* hash((k, random.random())) % capacity: any position of 0..capacity-1
AllocatorPositions(a) == 0..(a.capacity - 1)

\* one pass of the loop of allocate with the position drawn: ret = <<pos>>
\* when the call returns, None when the loop goes round again
AllocatorTry(a, pos) ==
    IF pos \notin a.used
    THEN [a |-> [a EXCEPT !.used = @ \cup {pos}], ret |-> <<pos>>]
    ELSE [a |-> a, ret |-> None]

AllocatorFree(a, pos) == [a EXCEPT !.used = @ \ {pos}]

\* ------------------------------------------------------------------------
\* The tables under test and their callers
\* ------------------------------------------------------------------------
\* Constructor arguments of the stand-alone building blocks.
LbtNumSlots == 4
LbtDeltaPct == 100
P2cNumSlots == 4
\* capacity of the container used on its own: that of the containers of
\* VariableSizeDerefTable(VarN)
ContainerCapacity == NewVariableSizeDerefTable(VarN).container_capacity
\* DerefTable(n): the size it starts with, and the size up to which the
\* model lets it double
DerefN == 4
MaxDerefN == 16
\* TinyHashTable(initial_capacity), and the size up to which its table doubles
TinyCapacity == 4
MaxTinyN == 8
\* SimulationHashTable(m), with one key more than Keys so that the table
\* can be full
SimM == 3
SimKeys == 1..(NumKeys + 1)
\* TinyAllocator(capacity)
AllocatorCapacity == 5

Kinds == {"lbt", "p2c", "fixed", "var"}

VARIABLES
    kind,    \* which table this behaviour exercises
    lbt,     \* a LoadBalancingTable
    p2c,     \* a PowerOfTwoChoicesDerefTable
    fixed,   \* a FixedSizeDerefTable
    vst,     \* a VariableSizeDerefTable
    container, \* a _Container used on its own
    live,    \* caller's record: [k, p, v] for every allocate(k, v) that
             \* returned p and was not freed since
    track,   \* whether the caller keeps the pair it freed last
    stale,   \* caller's record: <<k, p>> of the last successful free, or None
    freed,   \* caller's record: every <<k, p>> freed on the fixed-size table
    nfree,   \* number of successful free calls on the variable-size table
    last,    \* the last call: its name and the kind of its failure ("" if none)
    dt,      \* a DerefTable
    tht,     \* a TinyHashTable
    sim,     \* a SimulationHashTable
    alloc,   \* a TinyAllocator
    pc,      \* where the caller of the TinyAllocator is: at = "idle", or
             \* at = "allocate" inside the loop of allocate(k)
    model    \* caller's record of a hash table: for every key <<v>> with v
             \* the value it inserted last and did not remove since, or None

\* the objects outside the dereference tables of test_tiny_point.py
others == <<dt, tht, sim, alloc, pc, model>>

vars == <<kind, lbt, p2c, fixed, vst, container, live, track, stale, freed, nfree, last,
          dt, tht, sim, alloc, pc, model>>

Entry(k, p, v) == [k |-> k, p |-> p, v |-> v]

\* Only the table under test is constructed.
Construct ==
    /\ lbt = IF kind = "lbt"
             THEN NewLoadBalancingTable(LbtNumSlots, LbtDeltaPct) ELSE None
    /\ p2c = IF kind = "p2c"
             THEN NewPowerOfTwoChoicesDerefTable(P2cNumSlots) ELSE None
    /\ fixed = IF kind = "fixed"
               THEN NewFixedSizeDerefTable(FixedN, FixedDeltaPct) ELSE None
    /\ vst = IF kind = "var" THEN NewVariableSizeDerefTable(VarN) ELSE None
    /\ container = IF kind = "container" THEN NewContainer(ContainerCapacity) ELSE None
    /\ dt = IF kind = "deref" THEN NewDerefTable(DerefN) ELSE None
    /\ tht = IF kind = "tiny" THEN NewTinyHashTable(TinyCapacity) ELSE None
    /\ sim = IF kind = "sim" THEN NewSimulationHashTable(SimM) ELSE None
    /\ alloc = IF kind = "alloc" THEN NewTinyAllocator(AllocatorCapacity) ELSE None
    /\ pc = [at |-> "idle", k |-> 0]
    /\ model = IF kind = "tiny" THEN [k \in Keys |-> None]
               ELSE IF kind = "sim" THEN [k \in SimKeys |-> None]
               ELSE None
    /\ live = {}
    /\ stale = None
    /\ freed = {}
    /\ nfree = 0
    /\ last = [op |-> "init", err |-> ""]

Init ==
    /\ kind \in Kinds
    /\ track = FALSE
    /\ Construct

\* what the caller's records become after allocate / free returned
AfterAllocate(r, k, v) ==
    /\ live' = IF r.ret # None THEN live \cup {Entry(k, r.ret[1], v)} ELSE live
    /\ stale' = stale
    /\ freed' = freed

AfterFree(r, k, p) ==
    /\ live' = IF r.err = "" THEN {e \in live : ~(e.k = k /\ e.p = p)} ELSE live
    /\ stale' = IF track /\ r.err = "" THEN <<k, p>> ELSE stale
    /\ freed' = IF track /\ kind = "fixed" /\ r.err = ""
               THEN freed \cup {<<k, p>>} ELSE freed

\* Pointers handed to dereference and free: the pointers of the live
\* entries, the pointer freed last, the first pointer of each sub-table and
\* pointers no allocate returns.
Known == {e.p : e \in live} \cup (IF stale = None THEN {} ELSE {stale[2]})
LbtProbes == IF kind # "lbt" THEN {} ELSE Known \cup {-1, 0, lbt.bucket_size}
P2cProbes ==
    IF kind # "p2c" THEN {}
    ELSE Known \cup {-1, 0, Pow2(p2c.p_slot_bits), Pow2(p2c.p_slot_bits + 1)}
FixedProbes ==
    IF kind # "fixed" THEN {}
    ELSE Known \cup {-1, 0, Pow2(fixed.max_p_bits - 1), Pow2(fixed.max_p_bits)}
VarProbes ==
    IF kind # "var" THEN {}
    ELSE Known
         \cup {GlobalPointer(ci, 0, 0) : ci \in 0..vst.num_containers}

\* The caller's value for a key outside the load-balancing table: one value
\* per key.
\* (A container takes 13 entries of one level-0 bucket before it uses an
\* overflow array; in the variable-size table one key allocates.)
ValueOf(k) == ((k - 1) % NumVals) + 1
VarAllocKeys == {1}
VarCallKeys == {1, 2}

LbtAllocateCall(k, v) ==
    /\ kind = "lbt"
    /\ LET r == LbtAllocate(lbt, k, v)
       IN  /\ lbt' = r.t
           /\ AfterAllocate(r, k, v)
           /\ last' = [op |-> "allocate", err |-> IF r.ret = None THEN "None" ELSE ""]
    /\ UNCHANGED <<kind, others, track, container, nfree, p2c, fixed, vst>>

LbtDereferenceCall(k, p) ==
    /\ kind = "lbt"
    /\ last' = [op |-> "dereference", err |-> LbtDereference(lbt, k, p).err]
    /\ UNCHANGED <<kind, others, track, container, nfree, lbt, p2c, fixed, vst, live, stale, freed>>

LbtFreeCall(k, p) ==
    /\ kind = "lbt"
    /\ LET r == LbtFree(lbt, k, p)
       IN  /\ lbt' = r.t
           /\ AfterFree(r, k, p)
           /\ last' = [op |-> "free", err |-> r.err]
    /\ UNCHANGED <<kind, others, track, container, nfree, p2c, fixed, vst>>

P2cAllocateCall(k) ==
    /\ kind = "p2c"
    /\ LET r == P2cAllocate(p2c, k, ValueOf(k))
       IN  /\ p2c' = r.t
           /\ AfterAllocate(r, k, ValueOf(k))
           /\ last' = [op |-> "allocate", err |-> IF r.ret = None THEN "None" ELSE ""]
    /\ UNCHANGED <<kind, others, track, container, nfree, lbt, fixed, vst>>

P2cDereferenceCall(k, p) ==
    /\ kind = "p2c"
    /\ last' = [op |-> "dereference", err |-> P2cDereference(p2c, k, p).err]
    /\ UNCHANGED <<kind, others, track, container, nfree, lbt, p2c, fixed, vst, live, stale, freed>>

P2cFreeCall(k, p) ==
    /\ kind = "p2c"
    /\ LET r == P2cFree(p2c, k, p)
       IN  /\ p2c' = r.t
           /\ AfterFree(r, k, p)
           /\ last' = [op |-> "free", err |-> r.err]
    /\ UNCHANGED <<kind, others, track, container, nfree, lbt, fixed, vst>>

FixedAllocateCall(k) ==
    /\ kind = "fixed"
    /\ LET r == FixedAllocate(fixed, k, ValueOf(k))
       IN  /\ fixed' = r.t
           /\ AfterAllocate(r, k, ValueOf(k))
           /\ last' = [op |-> "allocate", err |-> r.err]
    /\ UNCHANGED <<kind, others, track, container, nfree, lbt, p2c, vst>>

FixedDereferenceCall(k, p) ==
    /\ kind = "fixed"
    /\ last' = [op |-> "dereference", err |-> FixedDereference(fixed, k, p).err]
    /\ UNCHANGED <<kind, others, track, container, nfree, lbt, p2c, fixed, vst, live, stale, freed>>

FixedFreeCall(k, p) ==
    /\ kind = "fixed"
    /\ LET r == FixedFree(fixed, k, p)
       IN  /\ fixed' = r.t
           /\ AfterFree(r, k, p)
           /\ last' = [op |-> "free", err |-> r.err]
    /\ UNCHANGED <<kind, others, track, container, nfree, lbt, p2c, vst>>

VstAllocateCall(k) ==
    /\ kind = "var"
    /\ LET r == VstAllocate(vst, k, ValueOf(k))
       IN  /\ vst' = r.t
           /\ AfterAllocate(r, k, ValueOf(k))
           /\ last' = [op |-> "allocate", err |-> r.err]
    /\ UNCHANGED <<kind, others, track, container, nfree, lbt, p2c, fixed>>

VstDereferenceCall(k, p) ==
    /\ kind = "var"
    /\ last' = [op |-> "dereference", err |-> VstDereference(vst, k, p).err]
    /\ UNCHANGED <<kind, others, track, container, nfree, lbt, p2c, fixed, vst, live, stale, freed>>

VstFreeCall(k, p) ==
    /\ kind = "var"
    /\ LET r == VstFree(vst, k, p)
       IN  /\ r.err = "" => nfree < MaxFrees
           /\ vst' = r.t
           /\ AfterFree(r, k, p)
           /\ nfree' = IF r.err = "" THEN nfree + 1 ELSE nfree
           /\ last' = [op |-> "free", err |-> r.err]
    /\ UNCHANGED <<kind, others, track, container, lbt, p2c, fixed>>

Next ==
    \/ \E k \in Keys, v \in Values : LbtAllocateCall(k, v)
    \/ \E k \in Keys, p \in LbtProbes : LbtDereferenceCall(k, p)
    \/ \E k \in Keys, p \in LbtProbes : LbtFreeCall(k, p)
    \/ \E k \in Keys : P2cAllocateCall(k)
    \/ \E k \in Keys, p \in P2cProbes : P2cDereferenceCall(k, p)
    \/ \E k \in Keys, p \in P2cProbes : P2cFreeCall(k, p)
    \/ \E k \in Keys : FixedAllocateCall(k)
    \/ \E k \in Keys, p \in FixedProbes : FixedDereferenceCall(k, p)
    \/ \E k \in Keys, p \in FixedProbes : FixedFreeCall(k, p)
    \/ \E k \in VarAllocKeys : VstAllocateCall(k)
    \/ \E k \in VarCallKeys, p \in VarProbes : VstDereferenceCall(k, p)
    \/ \E k \in VarCallKeys, p \in VarProbes : VstFreeCall(k, p)

Spec == Init /\ [][Next]_vars

\* The building blocks alone, with a caller that remembers the pair it
\* freed last.
InitStale ==
    /\ kind \in {"lbt", "p2c"}
    /\ track = TRUE
    /\ Construct

NextStale ==
    \/ \E k \in Keys, v \in Values : LbtAllocateCall(k, v)
    \/ \E k \in Keys, p \in LbtProbes : LbtDereferenceCall(k, p)
    \/ \E k \in Keys, p \in LbtProbes : LbtFreeCall(k, p)
    \/ \E k \in Keys : P2cAllocateCall(k)
    \/ \E k \in Keys, p \in P2cProbes : P2cDereferenceCall(k, p)
    \/ \E k \in Keys, p \in P2cProbes : P2cFreeCall(k, p)

SpecStale == InitStale /\ [][NextStale]_vars

\* The caller of the fixed-size table who allocates a batch of entries,
\* reads them back, frees every one of them and reads the freed pairs again.
InitFreeAll ==
    /\ kind = "fixed"
    /\ track = TRUE
    /\ Construct

FreeAllAllocate(k) ==
    /\ freed = {}
    /\ Cardinality(live) < MaxPairs
    /\ FixedAllocateCall(k)

NextFreeAll ==
    \/ \E k \in Keys : FreeAllAllocate(k)
    \/ \E e \in live : FixedDereferenceCall(e.k, e.p)
    \/ \E e \in live : FixedFreeCall(e.k, e.p)
    \/ \E pr \in freed : FixedDereferenceCall(pr[1], pr[2])

SpecFreeAll == InitFreeAll /\ [][NextFreeAll]_vars

\* The fixed-size table alone.
InitFixed ==
    /\ kind = "fixed"
    /\ track = FALSE
    /\ Construct

NextFixed ==
    \/ \E k \in Keys : FixedAllocateCall(k)
    \/ \E k \in Keys, p \in FixedProbes : FixedDereferenceCall(k, p)
    \/ \E k \in Keys, p \in FixedProbes : FixedFreeCall(k, p)

SpecFixed == InitFixed /\ [][NextFixed]_vars

\* The three tables whose pointers are decoded without a container index.
InitTables ==
    /\ kind \in {"lbt", "p2c", "fixed"}
    /\ track = FALSE
    /\ Construct

NextTables ==
    \/ \E k \in Keys, v \in Values : LbtAllocateCall(k, v)
    \/ \E k \in Keys, p \in LbtProbes : LbtDereferenceCall(k, p)
    \/ \E k \in Keys, p \in LbtProbes : LbtFreeCall(k, p)
    \/ \E k \in Keys : P2cAllocateCall(k)
    \/ \E k \in Keys, p \in P2cProbes : P2cDereferenceCall(k, p)
    \/ \E k \in Keys, p \in P2cProbes : P2cFreeCall(k, p)
    \/ \E k \in Keys : FixedAllocateCall(k)
    \/ \E k \in Keys, p \in FixedProbes : FixedDereferenceCall(k, p)
    \/ \E k \in Keys, p \in FixedProbes : FixedFreeCall(k, p)

SpecTables == InitTables /\ [][NextTables]_vars

\* The two-choice table alone.
InitP2c ==
    /\ kind = "p2c"
    /\ track = FALSE
    /\ Construct

NextP2c ==
    \/ \E k \in Keys : P2cAllocateCall(k)
    \/ \E k \in Keys, p \in P2cProbes : P2cDereferenceCall(k, p)
    \/ \E k \in Keys, p \in P2cProbes : P2cFreeCall(k, p)

SpecP2c == InitP2c /\ [][NextP2c]_vars

\* A container used on its own; its pointers are the pairs <<level, p_level>>
\* that _Container.allocate returns.  The two keys fall into different
\* buckets of the tables of levels 0 and 1.  The second key first stores
\* its entries (up to ContainerPrefill of them: its buckets of levels 0 and
\* 1), then the first key allocates.
ContainerKeys == {1, 3}
ContainerPrefill == 8

PrefillOpen ==
    /\ nfree = 0
    /\ \A e \in live : e.k = 3
    /\ Cardinality(live) < ContainerPrefill

MayAllocate(k) == IF k = 3 THEN PrefillOpen ELSE live = {} \/ ~PrefillOpen

\* pointers handed to dereference and free: those of the live entries and
\* the first cells of level 0's table and overflow array
ContainerProbes ==
    IF kind # "container" THEN {}
    ELSE {e.p : e \in live} \cup {<<Wide(0, 0), 0>>, <<Wide(1, 0), 0>>}

InitContainer ==
    /\ kind = "container"
    /\ track = FALSE
    /\ Construct

ContainerAllocateCall(k) ==
    /\ kind = "container"
    /\ LET r == ContainerAllocate(container, k, ValueOf(k))
       IN  /\ container' = r.c
           /\ AfterAllocate([ret |-> IF r.ret = None THEN None ELSE <<r.ret>>],
                            k, ValueOf(k))
           /\ last' = [op |-> "allocate",
                       err |-> IF r.err # "" THEN r.err
                               ELSE IF r.ret = None THEN "None" ELSE ""]
    /\ UNCHANGED <<kind, others, track, nfree, lbt, p2c, fixed, vst>>

ContainerDereferenceCall(k, p) ==
    /\ kind = "container"
    /\ last' = [op |-> "dereference", err |-> ContainerDereference(container, k, p).err]
    /\ UNCHANGED <<kind, others, track, nfree, lbt, p2c, fixed, vst, container, live, stale, freed>>

ContainerFreeCall(k, p) ==
    /\ kind = "container"
    /\ LET r == ContainerFree(container, k, p)
       IN  /\ r.err = "" => nfree < MaxFrees
           /\ container' = r.c
           /\ AfterFree(r, k, p)
           /\ nfree' = IF r.err = "" THEN nfree + 1 ELSE nfree
           /\ last' = [op |-> "free", err |-> r.err]
    /\ UNCHANGED <<kind, others, track, lbt, p2c, fixed, vst>>

NextContainer ==
    \/ \E k \in ContainerKeys : MayAllocate(k) /\ ContainerAllocateCall(k)
    \/ \E k \in ContainerKeys, p \in ContainerProbes : ContainerDereferenceCall(k, p)
    \/ \E k \in ContainerKeys, p \in ContainerProbes : ContainerFreeCall(k, p)

SpecContainer == InitContainer /\ [][NextContainer]_vars

\* ------------------------------------------------------------------------
\* DerefTable used on its own
\* ------------------------------------------------------------------------
DerefProbes ==
    IF kind # "deref" THEN {} ELSE Known \cup {-1, 0, dt.max_candidates}

InitDeref ==
    /\ kind = "deref"
    /\ track = FALSE
    /\ Construct

\* allocate is called while it leaves the table within MaxDerefN (it
\* doubles the table when its scan finds no free position)
DerefAllocateCall(k) ==
    /\ kind = "deref"
    /\ DerefScan(dt, k) = None => 2 * dt.n <= MaxDerefN
    /\ LET r == DerefAllocate(dt, k, ValueOf(k))
       IN  /\ dt' = r.t
           /\ AfterAllocate(r, k, ValueOf(k))
           /\ last' = [op |-> "allocate", err |-> r.err]
    /\ UNCHANGED <<kind, track, container, nfree, lbt, p2c, fixed, vst,
                   tht, sim, alloc, pc, model>>

DerefDereferenceCall(k, p) ==
    /\ kind = "deref"
    /\ last' = [op |-> "dereference", err |-> DerefDereference(dt, k, p).err]
    /\ UNCHANGED <<kind, others, track, container, nfree, lbt, p2c, fixed, vst,
                   live, stale, freed>>

DerefFreeCall(k, p) ==
    /\ kind = "deref"
    /\ LET r == DerefFree(dt, k, p)
       IN  /\ dt' = r.t
           /\ AfterFree(r, k, p)
           /\ last' = [op |-> "free", err |-> r.err]
    /\ UNCHANGED <<kind, track, container, nfree, lbt, p2c, fixed, vst,
                   tht, sim, alloc, pc, model>>

NextDeref ==
    \/ \E k \in Keys : DerefAllocateCall(k)
    \/ \E k \in Keys, p \in DerefProbes : DerefDereferenceCall(k, p)
    \/ \E k \in Keys, p \in DerefProbes : DerefFreeCall(k, p)

SpecDeref == InitDeref /\ [][NextDeref]_vars

\* ------------------------------------------------------------------------
\* TinyHashTable and its caller
\* ------------------------------------------------------------------------
InitTiny ==
    /\ kind = "tiny"
    /\ track = FALSE
    /\ Construct

\* insert is called while it leaves the table within MaxTinyN (allocate
\* doubles the table when its scan finds no free position)
TinyInsertCall(k, v) ==
    /\ kind = "tiny"
    /\ DerefScan(tht.deref, k) = None => 2 * tht.deref.n <= MaxTinyN
    /\ LET r == TinyInsert(tht, k, v)
       IN  /\ tht' = r.h
           /\ model' = IF r.err = "" THEN [model EXCEPT ![k] = <<v>>] ELSE model
           /\ last' = [op |-> "insert", err |-> r.err]
    /\ UNCHANGED <<kind, track, container, nfree, lbt, p2c, fixed, vst,
                   live, stale, freed, dt, sim, alloc, pc>>

TinyGetCall(k) ==
    /\ kind = "tiny"
    /\ last' = [op |-> "get", err |-> IF TinyGet(tht, k) = None THEN "None" ELSE ""]
    /\ UNCHANGED <<kind, others, track, container, nfree, lbt, p2c, fixed, vst,
                   live, stale, freed>>

TinyRemoveCall(k) ==
    /\ kind = "tiny"
    /\ LET r == TinyRemove(tht, k)
       IN  /\ tht' = r.h
           /\ model' = [model EXCEPT ![k] = None]
           /\ last' = [op |-> "remove", err |-> IF r.ret THEN "" ELSE "False"]
    /\ UNCHANGED <<kind, track, container, nfree, lbt, p2c, fixed, vst,
                   live, stale, freed, dt, sim, alloc, pc>>

NextTiny ==
    \/ \E k \in Keys, v \in Values : TinyInsertCall(k, v)
    \/ \E k \in Keys : TinyGetCall(k)
    \/ \E k \in Keys : TinyRemoveCall(k)

SpecTiny == InitTiny /\ [][NextTiny]_vars

\* ------------------------------------------------------------------------
\* SimulationHashTable and its caller
\* ------------------------------------------------------------------------
InitSim ==
    /\ kind = "sim"
    /\ track = FALSE
    /\ Construct

SimInsertCall(k, v) ==
    /\ kind = "sim"
    /\ LET r == SimInsert(sim, k, v)
       IN  /\ sim' = r.t
           /\ model' = IF r.err = "" THEN [model EXCEPT ![k] = <<v>>] ELSE model
           /\ last' = [op |-> "insert", err |-> r.err]
    /\ UNCHANGED <<kind, track, container, nfree, lbt, p2c, fixed, vst,
                   live, stale, freed, dt, tht, alloc, pc>>

SimSearchCall(k) ==
    /\ kind = "sim"
    /\ last' = [op |-> "search", err |-> IF SimSearch(sim, k) = None THEN "None" ELSE ""]
    /\ UNCHANGED <<kind, others, track, container, nfree, lbt, p2c, fixed, vst,
                   live, stale, freed>>

SimDeleteCall(k) ==
    /\ kind = "sim"
    /\ LET r == SimDelete(sim, k)
       IN  /\ sim' = r.t
           /\ model' = IF r.ret THEN [model EXCEPT ![k] = None] ELSE model
           /\ last' = [op |-> "delete", err |-> IF r.ret THEN "" ELSE "False"]
    /\ UNCHANGED <<kind, track, container, nfree, lbt, p2c, fixed, vst,
                   live, stale, freed, dt, tht, alloc, pc>>

NextSim ==
    \/ \E k \in SimKeys, v \in Values : SimInsertCall(k, v)
    \/ \E k \in SimKeys : SimSearchCall(k)
    \/ \E k \in SimKeys : SimDeleteCall(k)

SpecSim == InitSim /\ [][NextSim]_vars

\* ------------------------------------------------------------------------
\* TinyAllocator and its caller.  allocate(k) is a loop: the caller enters
\* it, every pass draws a position, and the call returns with the first
\* position drawn that is not in use.  free runs between two calls.
\* ------------------------------------------------------------------------
InitAllocator ==
    /\ kind = "alloc"
    /\ track = FALSE
    /\ Construct

AllocatorAllocateCall(k) ==
    /\ kind = "alloc"
    /\ pc.at = "idle"
    /\ pc' = [at |-> "allocate", k |-> k]
    /\ last' = [op |-> "allocate", err |-> "running"]
    /\ UNCHANGED <<kind, track, container, nfree, lbt, p2c, fixed, vst,
                   live, stale, freed, dt, tht, sim, alloc, model>>

AllocatorAllocatePass(pos) ==
    /\ kind = "alloc"
    /\ pc.at = "allocate"
    /\ LET r == AllocatorTry(alloc, pos)
       IN  /\ alloc' = r.a
           /\ pc' = IF r.ret # None THEN [at |-> "idle", k |-> 0] ELSE pc
           /\ last' = IF r.ret # None THEN [op |-> "allocate", err |-> ""] ELSE last
    /\ UNCHANGED <<kind, track, container, nfree, lbt, p2c, fixed, vst,
                   live, stale, freed, dt, tht, sim, model>>

AllocatorFreeCall(pos) ==
    /\ kind = "alloc"
    /\ pc.at = "idle"
    /\ alloc' = AllocatorFree(alloc, pos)
    /\ last' = [op |-> "free", err |-> ""]
    /\ UNCHANGED <<kind, track, container, nfree, lbt, p2c, fixed, vst,
                   live, stale, freed, dt, tht, sim, pc, model>>

NextAllocator ==
    \/ \E k \in Keys : AllocatorAllocateCall(k)
    \/ \E pos \in AllocatorPositions(alloc) : AllocatorAllocatePass(pos)
    \/ \E pos \in AllocatorPositions(alloc) : AllocatorFreeCall(pos)

\* random.random() is fair: a pass that can return is eventually drawn
SpecAllocator ==
    /\ InitAllocator
    /\ [][NextAllocator]_vars
    /\ WF_vars(\E pos \in AllocatorPositions(alloc) : AllocatorAllocatePass(pos))

\* ------------------------------------------------------------------------
\* The table under test, whatever its kind
\* ------------------------------------------------------------------------
Table ==
    CASE kind = "lbt" -> lbt
      [] kind = "p2c" -> p2c
      [] kind = "fixed" -> fixed
      [] kind = "var" -> vst

Dereference(t, k, p) ==
    CASE kind = "lbt" -> LbtDereference(t, k, p)
      [] kind = "p2c" -> P2cDereference(t, k, p)
      [] kind = "fixed" -> FixedDereference(t, k, p)
      [] kind = "var" -> VstDereference(t, k, p)

Free(t, k, p) ==
    CASE kind = "lbt" -> LbtFree(t, k, p)
      [] kind = "p2c" -> P2cFree(t, k, p)
      [] kind = "fixed" -> FixedFree(t, k, p)
      [] kind = "var" -> VstFree(t, k, p)

Probes == LbtProbes \cup P2cProbes \cup FixedProbes \cup VarProbes

Returned(v) == [err |-> "", val |-> <<v>>]

\* ------------------------------------------------------------------------
\* C1  Round trip, FixedSizeDerefTable: every entry that allocate(k, v)
\* returned at pointer p and that was not freed since dereferences to v,
\* also when one key holds several entries and when the entry sits in the
\* secondary table.
\* ------------------------------------------------------------------------
FixedRoundTrip ==
    kind = "fixed" =>
        \A e \in live : FixedDereference(fixed, e.k, e.p) = Returned(e.v)

\* one key holds an entry in the primary and one in the secondary table,
\* another key holds an entry too, and a free call has succeeded
FixedRoundTripWitness ==
    /\ kind = "fixed"
    /\ last = [op |-> "free", err |-> ""]
    /\ \E e1, e2, e3 \in live :
          /\ e1.k = e2.k /\ e3.k # e1.k
          /\ ~FixedDecodePointer(fixed, e1.p)[1]
          /\ FixedDecodePointer(fixed, e2.p)[1]

\* ------------------------------------------------------------------------
\* C2  Round trip, VariableSizeDerefTable: every pointer p that
\* allocate(k, v) returned and that was not freed since dereferences to v,
\* whichever level table or overflow array holds the entry.
\* ------------------------------------------------------------------------
VarRoundTrip ==
    kind = "var" =>
        \A e \in live : VstDereference(vst, e.k, e.p) = Returned(e.v)

\* ------------------------------------------------------------------------
\* C3  Post-free, every table kind: directly after a successful
\* free(k, p), dereference(k, p) fails and a second free(k, p) fails.
\* ------------------------------------------------------------------------
\* this step is a successful free(k, p)
FreedNow(k, p) ==
    /\ Free(Table, k, p).err = ""
    /\ Table' = Free(Table, k, p).t

PostFree ==
    [][(last'.op = "free" /\ last'.err = "") =>
          \A k \in Keys, p \in Probes :
              FreedNow(k, p) =>
                  /\ Dereference(Table', k, p).err # ""
                  /\ Free(Table', k, p).err # ""]_vars

\* a free call has just succeeded on the variable-size table while other
\* entries stay live
PostFreeWitness ==
    /\ kind = "var"
    /\ last = [op |-> "free", err |-> ""]
    /\ live # {}

\* ------------------------------------------------------------------------
\* C4  Ownership isolation, every table kind: dereference(k2, p) returns
\* only what an allocate(k2, .) stored at p; and when k1 holds a live entry
\* at p while k2 holds none, dereference(k2, p) fails with
\* OwnershipMismatch or NotAllocated.
\* ------------------------------------------------------------------------
OwnershipIsolation ==
    /\ \A k2 \in Keys, p \in Probes :
          Dereference(Table, k2, p).err = "" =>
              \E e \in live : e.k = k2 /\ e.p = p
                              /\ Dereference(Table, k2, p).val = <<e.v>>
    /\ \A e \in live, k2 \in Keys :
          (k2 # e.k /\ ~(\E e2 \in live : e2.k = k2 /\ e2.p = e.p)) =>
              Dereference(Table, k2, e.p).err \in {"OwnershipMismatch", "NotAllocated"}

\* ------------------------------------------------------------------------
\* C5  Stale pointer, LoadBalancingTable and PowerOfTwoChoicesDerefTable:
\* after free(k, p), while the slot of (k, p) is held by an entry that a
\* different key k' allocated later, dereference(k, p) and free(k, p) both
\* fail with OwnershipMismatch, free(k, p) changes nothing, and the entry of
\* k' still dereferences to its value.
\* ------------------------------------------------------------------------
\* the slot that (k, p) resolves to, as <<pos>>, or None for an invalid p
SlotOf(k, p) ==
    IF kind = "lbt"
    THEN IF 0 <= p /\ p < lbt.bucket_size THEN <<LbtPos(lbt, k, p)>> ELSE None
    ELSE P2cDecodePointer(p2c, k, p)

\* the live entries of other keys in the slot of the pointer freed last
Usurpers ==
    IF stale = None THEN {}
    ELSE {e \in live : e.k # stale[1] /\ SlotOf(e.k, e.p) = SlotOf(stale[1], stale[2])}

StalePointer ==
    \A e \in Usurpers :
        /\ Dereference(Table, stale[1], stale[2]).err = "OwnershipMismatch"
        /\ Free(Table, stale[1], stale[2]).err = "OwnershipMismatch"
        /\ Free(Table, stale[1], stale[2]).t = Table
        /\ Dereference(Table, e.k, e.p) = Returned(e.v)

\* free(k, p) succeeded, another key took the slot, and a later free call
\* failed with OwnershipMismatch
StalePointerWitness ==
    /\ Usurpers # {}
    /\ last = [op |-> "free", err |-> "OwnershipMismatch"]

\* ------------------------------------------------------------------------
\* C6  Capacity bound: no bucket of a LoadBalancingTable holds more than
\* bucket_size entries (neither by its owner records nor by the entries its
\* callers hold live), and every bucket_occupancy counter of a
\* PowerOfTwoChoicesDerefTable is in 0..bucket_size.
\* ------------------------------------------------------------------------
\* number of owner records in bucket b of the LoadBalancingTable t
LbtBucketLoad(t, b) ==
    Cardinality({i \in 0..(t.bucket_size - 1) :
                    t.owner_info[b * t.bucket_size + i] # None})

LbtWithinCapacity(t) ==
    /\ DOMAIN t.owner_info = 0..(t.num_buckets * t.bucket_size - 1)
    /\ \A b \in 0..(t.num_buckets - 1) : LbtBucketLoad(t, b) <= t.bucket_size

P2cWithinCapacity(t) ==
    \A b \in 0..(t.num_buckets - 1) : t.bucket_occupancy[b] \in 0..t.bucket_size

\* live entries of the caller that sit in bucket b of the LoadBalancingTable t
LiveInBucket(t, b, entries) == {e \in entries : LbtGetBucketIndex(t, e.k) = b}

CapacityBound ==
    /\ kind = "lbt" =>
          /\ LbtWithinCapacity(lbt)
          /\ \A b \in 0..(lbt.num_buckets - 1) :
                Cardinality(LiveInBucket(lbt, b, live)) <= lbt.bucket_size
    /\ kind = "p2c" => P2cWithinCapacity(p2c)
    /\ kind = "fixed" =>
          /\ LbtWithinCapacity(fixed.primary)
          /\ P2cWithinCapacity(fixed.secondary)
          /\ \A b \in 0..(fixed.primary.num_buckets - 1) :
                Cardinality(LiveInBucket(fixed.primary, b,
                    {e \in live : ~FixedDecodePointer(fixed, e.p)[1]}))
                  <= fixed.primary.bucket_size
    /\ kind = "var" =>
          \A ci \in DOMAIN vst.containers :
              \A i \in DOMAIN vst.containers[ci].levels :
                  LbtWithinCapacity(vst.containers[ci].levels[i])

\* a bucket of the stand-alone two-choice table is full after a free call
\* failed on a slot that another key holds
CapacityBoundWitness ==
    /\ kind = "p2c"
    /\ \E b \in 0..(p2c.num_buckets - 1) : p2c.bucket_occupancy[b] = p2c.bucket_size
    /\ last = [op |-> "free", err |-> "OwnershipMismatch"]

\* ------------------------------------------------------------------------
\* C7  Container occupancy bound: in every container num_items <= capacity
\* and level_occupancy[i] <= level_slots[i] for every level i, after any
\* sequence of allocate and free.
\* ------------------------------------------------------------------------
ContainerOccupancy ==
    kind = "var" =>
        \A ci \in DOMAIN vst.containers :
            LET c == vst.containers[ci]
            IN  /\ c.num_items <= c.capacity
                /\ \A i \in DOMAIN c.levels :
                      c.level_occupancy[i] <= c.level_slots[i]

\* after a free call succeeded, the counter of level 1 is at its slot count
\* and the container is full
ContainerOccupancyWitness ==
    /\ kind = "var"
    /\ nfree > 0
    /\ \E ci \in DOMAIN vst.containers :
          LET c == vst.containers[ci]
          IN  /\ c.num_items = c.capacity
              /\ c.level_occupancy[1] = c.level_slots[1]

\* ------------------------------------------------------------------------
\* C8  Container cascading: an allocate call stores its item in the
\* overflow array of level i only when, at that moment, the key's bucket of
\* level i's table has no empty slot and level i+1's occupancy counter is at
\* least level i+1's slot count (or level i is the last level); otherwise
\* the allocation moves on to level i+1, so an item placed at level i has
\* found every level below i full in the key's bucket with the level above
\* it not saturated.
\* ------------------------------------------------------------------------
BucketFull(t, k) ==
    LbtFirstEmpty(t, LbtGetBucketIndex(t, k) * t.bucket_size) = None

NextSaturated(c, i) ==
    \/ i + 1 >= NumLevels(c)
    \/ c.level_occupancy[i + 1] >= c.level_slots[i + 1]

\* the step from container c to c2 placed the item of key k as C8 says
Cascaded(c, c2, k) ==
    \A i \in DOMAIN c.levels :
        LET inTable == c2.levels[i].owner_info # c.levels[i].owner_info
            inOverflow == c2.overflow_arrays[i] # c.overflow_arrays[i]
        IN  /\ inOverflow => BucketFull(c.levels[i], k) /\ NextSaturated(c, i)
            /\ inTable => ~BucketFull(c.levels[i], k)
            /\ (inTable \/ inOverflow) =>
                  \A j \in 0..(i - 1) :
                      BucketFull(c.levels[j], k) /\ ~NextSaturated(c, j)

Cascading ==
    [][(kind = "var" /\ last'.op = "allocate") =>
          \A k \in VarAllocKeys :
              VstAllocateCall(k) =>
                  Cascaded(vst.containers[VstGetContainerIndex(vst, k)],
                           vst'.containers[VstGetContainerIndex(vst, k)], k)]_vars

\* an item sits in the overflow array of level 0 and items sit in the
\* tables of levels 1 and 2
CascadingWitness ==
    /\ kind = "var"
    /\ last = [op |-> "allocate", err |-> ""]
    /\ \E ci \in DOMAIN vst.containers :
          LET c == vst.containers[ci]
          IN  /\ \E j \in DOMAIN c.overflow_arrays[0] : c.overflow_arrays[0][j] # None
              /\ \E pos \in DOMAIN c.levels[1].owner_info :
                    c.levels[1].owner_info[pos] # None
              /\ \E pos \in DOMAIN c.levels[2].owner_info :
                    c.levels[2].owner_info[pos] # None

\* ------------------------------------------------------------------------
\* C9  Pointer-width bound, FixedSizeDerefTable: every pointer p that
\* allocate returned satisfies 0 <= p < 2^max_p_bits, where max_p_bits =
\* max(primary_p_bits, secondary_p_bits) + 1 is what
\* get_tiny_pointer_size_bits reports; the local pointer of either
\* sub-table is below 2^(max_p_bits - 1), so p is the origin bit plus the
\* local pointer.
\* ------------------------------------------------------------------------
\* the local pointers recorded in the owner records of a sub-table
LocalPointers(t) ==
    {t.owner_info[pos][2] : pos \in {q \in DOMAIN t.owner_info : t.owner_info[q] # None}}

PointerWidth ==
    kind = "fixed" =>
        LET bits == FixedGetTinyPointerSizeBits(fixed)
        IN  /\ bits = Max(fixed.primary_p_bits, fixed.secondary_p_bits) + 1
            /\ \A e \in live : 0 <= e.p /\ e.p < Pow2(bits)
            /\ \A q \in LocalPointers(fixed.primary) \cup LocalPointers(fixed.secondary) :
                  0 <= q /\ q < Pow2(bits - 1)
            /\ \A e \in live :
                  \/ e.p \in LocalPointers(fixed.primary)
                  \/ /\ e.p >= Pow2(bits - 1)
                     /\ e.p - Pow2(bits - 1) \in LocalPointers(fixed.secondary)

\* the caller holds the largest pointer of the secondary table and a
\* pointer of the primary table
PointerWidthWitness ==
    /\ kind = "fixed"
    /\ last = [op |-> "allocate", err |-> ""]
    /\ \E e1, e2 \in live :
          /\ e1.p = Pow2(fixed.max_p_bits) - 1
          /\ e2.p < Pow2(fixed.max_p_bits - 1)

\* ------------------------------------------------------------------------
\* C10  LoadBalancingTable bucket exhaustion: while the entries of a bucket
\* are the first cnt slots (as after cnt allocations into the empty
\* bucket), allocate(k, v) of a key of that bucket returns cnt and records
\* owner (k, cnt) if cnt < bucket_size; if cnt = bucket_size it returns None
\* and leaves the slot store and the owner records unchanged, even if other
\* buckets have empty slots.
\* ------------------------------------------------------------------------
\* the owner records of bucket b are exactly its first LbtBucketLoad slots
PrefixFilled(t, b) ==
    \A i \in 0..(t.bucket_size - 1) :
        (t.owner_info[b * t.bucket_size + i] # None) <=> (i < LbtBucketLoad(t, b))

Exhaustion(k, v) ==
    LET b == LbtGetBucketIndex(lbt, k)
        cnt == LbtBucketLoad(lbt, b)
        pos == b * lbt.bucket_size + cnt
    IN  PrefixFilled(lbt, b) =>
            IF cnt < lbt.bucket_size
            THEN /\ last'.err = ""
                 /\ live' = live \cup {Entry(k, cnt, v)}
                 /\ lbt'.owner_info = [lbt.owner_info EXCEPT ![pos] = <<k, cnt>>]
                 /\ lbt'.store = [lbt.store EXCEPT ![pos] = <<v>>]
            ELSE /\ last'.err = "None"
                 /\ live' = live
                 /\ lbt'.owner_info = lbt.owner_info
                 /\ lbt'.store = lbt.store

BucketExhaustion ==
    [][(kind = "lbt" /\ last'.op = "allocate") =>
          \A k \in Keys, v \in Values :
              LbtAllocateCall(k, v) => Exhaustion(k, v)]_vars

\* allocate has just returned None for a full bucket while another bucket
\* has an empty slot
BucketExhaustionWitness ==
    /\ kind = "lbt"
    /\ last = [op |-> "allocate", err |-> "None"]
    /\ \E b1, b2 \in 0..(lbt.num_buckets - 1) :
          /\ LbtBucketLoad(lbt, b1) = lbt.bucket_size
          /\ LbtBucketLoad(lbt, b2) < lbt.bucket_size

\* ------------------------------------------------------------------------
\* C11  FixedSizeDerefTable free-all: once every pair (k, p) that allocate
\* returned has been freed, dereference(k, p) fails with NotAllocated for
\* each of those pairs (and with no other kind of failure).
\* ------------------------------------------------------------------------
FreeAll ==
    (kind = "fixed" /\ live = {}) =>
        \A pr \in freed :
            FixedDereference(fixed, pr[1], pr[2]) = [err |-> "NotAllocated", val |-> None]

\* entries of two keys, one of them in the secondary table, have all been
\* freed and a dereference of a freed pair has failed
FreeAllWitness ==
    /\ kind = "fixed"
    /\ live = {}
    /\ \E pr1, pr2 \in freed :
          /\ pr1[1] # pr2[1]
          /\ FixedDecodePointer(fixed, pr1[2])[1]
          /\ ~FixedDecodePointer(fixed, pr2[2])[1]
    /\ last = [op |-> "dereference", err |-> "NotAllocated"]

\* ------------------------------------------------------------------------
\* C12  Error kinds of dereference and free: for every table kind, every
\* key and every pointer value (negative ones and ones whose container,
\* level or slot field is out of range included), dereference(k, p) and
\* free(k, p) succeed or fail with InvalidPointer, NotAllocated or
\* OwnershipMismatch; no other failure reaches the caller.
\* ------------------------------------------------------------------------
KeyErrorKinds == {"InvalidPointer", "NotAllocated", "OwnershipMismatch"}

\* pointer values beyond those the caller was handed
WildPointers ==
    IF kind = "var"
    THEN {GlobalPointer(c, l, q) :
             c \in -1..vst.num_containers,
             l \in {0, NumLevels(vst.containers[0]) - 1, NumLevels(vst.containers[0]), 65535},
             q \in {0, 4}}
    ELSE -1..16

ErrorKinds ==
    \A k \in Keys, p \in Probes \cup WildPointers :
        /\ Dereference(Table, k, p).err \in {""} \cup KeyErrorKinds
        /\ Free(Table, k, p).err \in {""} \cup KeyErrorKinds

\* ------------------------------------------------------------------------
\* C13  FixedSizeDerefTable allocation failure: allocate(k, v) fails with
\* AllocationFailed exactly when the key's primary bucket has no empty slot
\* and both secondary candidate buckets of the key are at capacity; the
\* failing call changes no slot, owner record or occupancy counter.
\* ------------------------------------------------------------------------
\* both candidate buckets of k in the two-choice table t are at capacity
CandidatesFull(t, k) ==
    LET b == P2cGetBucketIndices(t, k)
    IN  /\ t.bucket_occupancy[b[1]] >= t.bucket_size
        /\ t.bucket_occupancy[b[2]] >= t.bucket_size

Exhausted(k) == BucketFull(fixed.primary, k) /\ CandidatesFull(fixed.secondary, k)

AllocationFailure ==
    /\ \A k \in Keys :
          LET r == FixedAllocate(fixed, k, ValueOf(k))
          IN  /\ (r.err = "AllocationFailed") <=> Exhausted(k)
              /\ (r.err = "AllocationFailed") => (r.t = fixed /\ r.ret = None)
    /\ last = [op |-> "allocate", err |-> "AllocationFailed"] =>
          \E k \in Keys : Exhausted(k)

\* allocate has just failed while the primary table has empty buckets, and
\* an entry was freed before
AllocationFailureWitness ==
    /\ kind = "fixed"
    /\ last = [op |-> "allocate", err |-> "AllocationFailed"]
    /\ \E k \in Keys : Exhausted(k)
    /\ \E b \in 0..(fixed.primary.num_buckets - 1) : LbtBucketLoad(fixed.primary, b) = 0

\* ------------------------------------------------------------------------
\* C14  FixedSizeDerefTable origin flag: allocate stores an entry in the
\* secondary table only if the key's primary bucket has no empty slot at
\* that moment; bit max_p_bits-1 of the returned pointer is 1 exactly when
\* the entry went to the secondary table; dereference and free address the
\* sub-table named by that bit with the remaining bits as local pointer.
\* ------------------------------------------------------------------------
OriginBit(p) == (p \div Pow2(fixed.max_p_bits - 1)) % 2
LocalBits(p) == p % Pow2(fixed.max_p_bits - 1)

\* allocate(k, .) in the current state sets the flag of its pointer right
FlagSet(k) ==
    LET r == FixedAllocate(fixed, k, ValueOf(k))
    IN  r.ret # None =>
            /\ (r.t.secondary # fixed.secondary) => BucketFull(fixed.primary, k)
            /\ (OriginBit(r.ret[1]) = 1) <=> (r.t.secondary # fixed.secondary)
            /\ (OriginBit(r.ret[1]) = 0) <=> (r.t.primary # fixed.primary)

\* dereference and free of the live entry e go to the sub-table of its flag
FlagRead(e) ==
    IF OriginBit(e.p) = 1
    THEN /\ FixedDereference(fixed, e.k, e.p)
              = P2cDereference(fixed.secondary, e.k, LocalBits(e.p))
         /\ FixedFree(fixed, e.k, e.p).t
              = [fixed EXCEPT !.secondary = P2cFree(fixed.secondary, e.k, LocalBits(e.p)).t]
         /\ FixedFree(fixed, e.k, e.p).err = ""
    ELSE /\ FixedDereference(fixed, e.k, e.p)
              = LbtDereference(fixed.primary, e.k, LocalBits(e.p))
         /\ FixedFree(fixed, e.k, e.p).t
              = [fixed EXCEPT !.primary = LbtFree(fixed.primary, e.k, LocalBits(e.p)).t]
         /\ FixedFree(fixed, e.k, e.p).err = ""

OriginFlag ==
    kind = "fixed" =>
        /\ \A k \in Keys : FlagSet(k)
        /\ \A e \in live : FlagRead(e)

\* an entry has just been stored in the secondary table while another entry
\* sits in the primary table
OriginFlagWitness ==
    /\ kind = "fixed"
    /\ last = [op |-> "allocate", err |-> ""]
    /\ \E e1, e2 \in live : OriginBit(e1.p) = 1 /\ OriginBit(e2.p) = 0
    /\ \E k \in Keys : ~BucketFull(fixed.primary, k) \/ ~CandidatesFull(fixed.secondary, k)

\* ------------------------------------------------------------------------
\* C15  VariableSizeDerefTable pointer packing: for every triple
\* (container index, level, local) that a container hands back to allocate,
\* levels with the overflow flag included, _decode_pointer of the packed
\* global pointer returns the same container index, the same level with its
\* flag and the same local pointer or overflow index.
\* ------------------------------------------------------------------------
PackRoundTrip ==
    kind = "var" =>
        \A k \in Keys :
            LET ci == VstGetContainerIndex(vst, k)
                r == ContainerAllocate(vst.containers[ci], k, ValueOf(k))
            IN  (r.err = "" /\ r.ret # None) =>
                    VstDecodePointer(VstPack(ci, r.ret[1], r.ret[2])) = <<ci, r.ret>>

\* ------------------------------------------------------------------------
\* C16  Index-free decoding: in LoadBalancingTable,
\* PowerOfTwoChoicesDerefTable and FixedSizeDerefTable the slot that
\* dereference(k, p) and free(k, p) examine depends on k, p and the
\* construction parameters only: a table with any contents, counters and
\* history examines the same slot as the newly constructed table, and for a
\* live entry that slot is the one holding it.
\* ------------------------------------------------------------------------
\* the position examined in a LoadBalancingTable, as <<pos>>, or None when
\* the pointer is rejected before any slot is read
LbtSlot(t, k, p) ==
    IF 0 <= p /\ p < t.bucket_size THEN <<LbtPos(t, k, p)>> ELSE None

\* <<is_secondary, slot in that sub-table>>
FixedSlot(t, k, p) ==
    LET d == FixedDecodePointer(t, p)
    IN  <<d[1], IF d[1] THEN P2cDecodePointer(t.secondary, k, d[2])
                ELSE LbtSlot(t.primary, k, d[2])>>

SlotExamined(t, k, p) ==
    CASE kind = "lbt" -> LbtSlot(t, k, p)
      [] kind = "p2c" -> P2cDecodePointer(t, k, p)
      [] kind = "fixed" -> FixedSlot(t, k, p)

\* a table of the same construction parameters with no history
Fresh ==
    CASE kind = "lbt" -> NewLoadBalancingTable(LbtNumSlots, LbtDeltaPct)
      [] kind = "p2c" -> NewPowerOfTwoChoicesDerefTable(P2cNumSlots)
      [] kind = "fixed" -> NewFixedSizeDerefTable(FixedN, FixedDeltaPct)

\* the owner record at the slot s of the table under test, or None
OwnerAt(s) ==
    CASE kind = "lbt" -> lbt.owner_info[s[1]]
      [] kind = "p2c" -> p2c.owner_info[s[1]]
      [] kind = "fixed" -> IF s[1] THEN fixed.secondary.owner_info[s[2][1]]
                           ELSE fixed.primary.owner_info[s[2][1]]

IndexFree ==
    kind \in {"lbt", "p2c", "fixed"} =>
        /\ \A k \in Keys, p \in Probes :
              SlotExamined(Table, k, p) = SlotExamined(Fresh, k, p)
        /\ \A e \in live :
              LET own == OwnerAt(SlotExamined(Fresh, e.k, e.p))
              IN  own # None /\ own[1] = e.k

\* the two-choice table holds entries in both buckets with unequal
\* counters after a free call succeeded
IndexFreeWitness ==
    /\ kind = "p2c"
    /\ last = [op |-> "free", err |-> ""]
    /\ \E b1, b2 \in 0..(p2c.num_buckets - 1) :
          0 < p2c.bucket_occupancy[b1] /\ p2c.bucket_occupancy[b1] < p2c.bucket_occupancy[b2]

\* ------------------------------------------------------------------------
\* C17  PowerOfTwoChoicesDerefTable placement policy: the two candidate
\* buckets of a key are distinct; allocate places the entry in the first
\* candidate when its occupancy is at most the second's and in the second
\* otherwise, records the choice in the pointer bit above the slot bits,
\* and fails only when both candidate buckets are full.
\* ------------------------------------------------------------------------
\* the bucket whose owner records differ between the tables t and t2
ChangedBuckets(t, t2) ==
    {pos \div t.bucket_size : pos \in {q \in DOMAIN t.owner_info :
                                            t.owner_info[q] # t2.owner_info[q]}}

Placed(t, k) ==
    LET b == P2cGetBucketIndices(t, k)
        r == P2cAllocate(t, k, ValueOf(k))
        want == IF t.bucket_occupancy[b[1]] <= t.bucket_occupancy[b[2]] THEN 1 ELSE 2
    IN  /\ b[1] # b[2]
        /\ b[1] \in 0..(t.num_buckets - 1) /\ b[2] \in 0..(t.num_buckets - 1)
        /\ r.ret # None =>
              /\ ChangedBuckets(t, r.t) = {b[want]}
              /\ r.ret[1] \div Pow2(t.p_slot_bits) = want - 1
              /\ r.t.owner_info[b[want] * t.bucket_size + (r.ret[1] % Pow2(t.p_slot_bits))]
                   = <<k, r.ret[1]>>
        /\ r.ret = None =>
              /\ LbtBucketLoad(t, b[1]) = t.bucket_size
              /\ LbtBucketLoad(t, b[2]) = t.bucket_size
              /\ r.t = t

\* the candidate buckets of every key are distinct in a table of any of
\* these sizes
P2cSizes == 1..16
DistinctCandidates ==
    \A n \in P2cSizes, k \in Keys :
        LET t == NewPowerOfTwoChoicesDerefTable(n)
            b == P2cGetBucketIndices(t, k)
        IN  b[1] # b[2] /\ {b[1], b[2]} \subseteq 0..(t.num_buckets - 1)

PlacementPolicy ==
    kind = "p2c" => DistinctCandidates /\ \A k \in Keys : Placed(p2c, k)

\* an entry has just gone to the second candidate bucket of its key, the
\* first one holding more entries
PlacementPolicyWitness ==
    /\ kind = "p2c"
    /\ last = [op |-> "allocate", err |-> ""]
    /\ \E e \in live :
          LET b == P2cGetBucketIndices(p2c, e.k)
          IN  /\ e.p \div Pow2(p2c.p_slot_bits) = 1
              /\ p2c.bucket_occupancy[b[1]] >= p2c.bucket_occupancy[b[2]]
              /\ HashToInt("p2c1:", e.k) % p2c.num_buckets
                   = HashToInt("p2c2:", e.k) % p2c.num_buckets

\* ------------------------------------------------------------------------
\* C18  PowerOfTwoChoicesDerefTable counter exactness: bucket_occupancy[b]
\* equals the number of slots of bucket b that hold an owner record, after
\* any sequence of allocate and free calls, failing ones included; hence
\* allocate never reaches its last 'return None', the one after the scan of
\* a bucket whose counter is below bucket_size.
\* ------------------------------------------------------------------------
\* allocate(k, .) on t would scan its chosen bucket and find no empty slot
ScanFails(t, k) ==
    LET b == P2cGetBucketIndices(t, k)
        chosen == IF t.bucket_occupancy[b[1]] <= t.bucket_occupancy[b[2]]
                  THEN b[1] ELSE b[2]
    IN  /\ t.bucket_occupancy[chosen] < t.bucket_size
        /\ LbtFirstEmpty(t, chosen * t.bucket_size) = None

CounterExact(t) ==
    /\ \A b \in 0..(t.num_buckets - 1) : t.bucket_occupancy[b] = LbtBucketLoad(t, b)
    /\ \A k \in Keys : ~ScanFails(t, k)

P2cCounters ==
    kind = "p2c" => CounterExact(p2c)

\* a free call has just failed on a table with a full bucket and a bucket
\* that was filled and emptied in part
P2cCountersWitness ==
    /\ kind = "p2c"
    /\ last.op = "free" /\ last.err # ""
    /\ \E b1, b2 \in 0..(p2c.num_buckets - 1) :
          /\ p2c.bucket_occupancy[b1] = p2c.bucket_size
          /\ p2c.bucket_occupancy[b2] = 1
          /\ p2c.owner_info[b2 * p2c.bucket_size] = None

\* ------------------------------------------------------------------------
\* C19  Container counter exactness: in every reachable state of a
\* container num_items is the number of live entries and
\* level_occupancy[i] is the number of live entries at level i or deeper
\* (in a level table or an overflow array); once every live entry has been
\* freed all counters are 0 and every level table and overflow array is
\* empty.
\* ------------------------------------------------------------------------
\* entries held by level i of container c: owner records and overflow cells
EntriesAt(c, i) ==
    Cardinality({pos \in DOMAIN c.levels[i].owner_info :
                    c.levels[i].owner_info[pos] # None})
    + Cardinality({j \in DOMAIN c.overflow_arrays[i] : c.overflow_arrays[i][j] # None})

RECURSIVE EntriesFrom(_, _)
EntriesFrom(c, i) ==
    IF i >= NumLevels(c) THEN 0 ELSE EntriesAt(c, i) + EntriesFrom(c, i + 1)

ContainerCounters ==
    kind = "container" =>
        /\ container.num_items = Cardinality(live)
        /\ \A i \in DOMAIN container.level_occupancy :
              /\ EntriesAt(container, i) = Cardinality({e \in live : e.p[1].idx = i})
              /\ container.level_occupancy[i] = EntriesFrom(container, i)
        /\ live = {} =>
              /\ container.num_items = 0
              /\ \A i \in DOMAIN container.level_occupancy :
                    container.level_occupancy[i] = 0 /\ EntriesAt(container, i) = 0

\* an overflow entry has just been freed while both keys hold entries and
\* another overflow entry stays
ContainerCountersWitness ==
    /\ kind = "container"
    /\ last = [op |-> "free", err |-> ""]
    /\ container.overflow_arrays[0][0] = None
    /\ container.overflow_arrays[0][1] # None
    /\ \E e1, e2 \in live : e1.k # e2.k

\* ------------------------------------------------------------------------
\* C20  Container allocation never hits its fatal paths: in every reachable
\* state allocate returns a pointer when num_items < capacity and returns
\* None without changing any state when num_items = capacity; neither
\* RuntimeError is raised.
\* ------------------------------------------------------------------------
NoFatalPath ==
    kind = "container" =>
        /\ last.err # "RuntimeError"
        /\ container.num_items <= container.capacity
        /\ \A k \in ContainerKeys :
              LET r == ContainerAllocate(container, k, ValueOf(k))
              IN  /\ r.err = ""
                  /\ container.num_items < container.capacity => r.ret # None
                  /\ container.num_items = container.capacity =>
                        r.ret = None /\ r.c = container

\* allocate has just returned None on the full container, after entries
\* were freed and stored again and with entries in an overflow array
NoFatalPathWitness ==
    /\ kind = "container"
    /\ last = [op |-> "allocate", err |-> "None"]
    /\ nfree > 0
    /\ container.num_items = container.capacity
    /\ container.overflow_arrays[0][0] # None

\* ------------------------------------------------------------------------
\* C21  Owner-record consistency: in every reachable state of
\* LoadBalancingTable and PowerOfTwoChoicesDerefTable (stand-alone and as
\* the two halves of FixedSizeDerefTable) every occupied slot at position
\* pos carries an owner record (k, p) whose recomputed position is pos, and
\* every slot with an empty owner record holds no value.
\* ------------------------------------------------------------------------
LbtOwnerRecords(t) ==
    \A pos \in DOMAIN t.owner_info :
        LET info == t.owner_info[pos]
        IN  IF info = None THEN t.store[pos] = None
            ELSE /\ t.store[pos] # None
                 /\ 0 <= info[2] /\ info[2] < t.bucket_size
                 /\ LbtPos(t, info[1], info[2]) = pos

P2cOwnerRecords(t) ==
    \A pos \in DOMAIN t.owner_info :
        LET info == t.owner_info[pos]
        IN  IF info = None THEN t.store[pos] = None
            ELSE /\ t.store[pos] # None
                 /\ P2cDecodePointer(t, info[1], info[2]) = <<pos>>

OwnerRecords ==
    CASE kind = "lbt" -> LbtOwnerRecords(lbt)
      [] kind = "p2c" -> P2cOwnerRecords(p2c)
      [] kind = "fixed" -> /\ LbtOwnerRecords(fixed.primary)
                           /\ P2cOwnerRecords(fixed.secondary)
      [] OTHER -> TRUE

\* a free has just emptied one slot of a table that holds entries in its
\* load-balancing half and in its two-choice half
OwnerRecordsWitness ==
    /\ kind = "fixed"
    /\ last = [op |-> "free", err |-> ""]
    /\ \E pos \in DOMAIN fixed.primary.owner_info :
           fixed.primary.owner_info[pos] # None
    /\ \E pos \in DOMAIN fixed.secondary.owner_info :
           fixed.secondary.owner_info[pos] # None

\* ------------------------------------------------------------------------
\* C22  Failed operations change nothing: in every table kind a
\* dereference leaves the table as it was, and a free that fails (invalid
\* pointer, empty slot, ownership mismatch) leaves every slot, owner record,
\* bucket occupancy counter, container item count and level occupancy
\* counter unchanged.
\* ------------------------------------------------------------------------
\* The four tables under every call of their callers; the frame conditions
\* are checked on a specification of their own.
InitFrame ==
    /\ kind \in Kinds
    /\ track = FALSE
    /\ Construct

SpecFrame == InitFrame /\ [][Next]_vars

FailedUnchanged ==
    [][(last'.op = "dereference" \/ (last'.op = "free" /\ last'.err # ""))
          => UNCHANGED <<lbt, p2c, fixed, vst, container>>]_vars

\* a free of a key's pointer under another key has just failed on a
\* variable-size table that holds entries
FailedUnchangedWitness ==
    /\ kind = "var"
    /\ last.op = "free"
    /\ last.err \in {"OwnershipMismatch", "NotAllocated"}
    /\ \E ci \in DOMAIN vst.containers : vst.containers[ci].num_items > 1

\* ------------------------------------------------------------------------
\* C23  No aliasing pointers: in every table kind dereference(k, p) and
\* free(k, p) succeed only if p is numerically the pointer of an entry that
\* allocate(k, .) returned and that was not freed since; no other integer
\* (negative, or with extra high bits set) reaches a live entry.
\* ------------------------------------------------------------------------
\* Integers that differ from a live pointer above the bits the table reads,
\* and below zero: the live pointer plus or minus the first power of two
\* above the pointer width; for the packed global pointer, the container
\* field lowered by the number of containers.
AliasPointers ==
    CASE kind = "lbt" ->
           {e.p + s * Pow2(lbt.p_bits) : e \in live, s \in {-1, 1}}
      [] kind = "p2c" ->
           {e.p + s * Pow2(p2c.p_slot_bits + 1) : e \in live, s \in {-1, 1}}
      [] kind = "fixed" ->
           {e.p + s * Pow2(fixed.max_p_bits) : e \in live, s \in {-1, 1}}
      [] kind = "var" ->
           {GlobalPointer(e.p.c - vst.num_containers, e.p.l, e.p.p) : e \in live}

NoAliasing ==
    \A k \in Keys, p \in Probes \cup AliasPointers :
        (Dereference(Table, k, p).err = "" \/ Free(Table, k, p).err = "")
            => \E e \in live : e.k = k /\ e.p = p

\* ------------------------------------------------------------------------
\* C24  DerefTable keeps entries across a resize: when allocate doubles the
\* table and rehashes, every entry that was live before still dereferences
\* to its value with its unchanged pointer, and no two live entries are
\* rehashed onto the same slot.
\* ------------------------------------------------------------------------
Occupied(t) == {pos \in DOMAIN t.owner_info : t.owner_info[pos] # None}

\* doubling t moves every entry to where its pointer is looked up, each to
\* a slot of its own
ResizeKeeps(t) ==
    LET t2 == DerefResize(t)
    IN  /\ \A pos \in Occupied(t) :
               DerefDereference(t2, t.owner_info[pos][1], t.owner_info[pos][2])
                   = [err |-> "", val |-> t.A[pos]]
        /\ Cardinality(Occupied(t2)) = Cardinality(Occupied(t))

\* The caller's live entries include the ones allocated before the table
\* was doubled.
KeepsAcrossResize ==
    kind = "deref" =>
        /\ \A e \in live : DerefDereference(dt, e.k, e.p) = Returned(e.v)
        /\ Cardinality(Occupied(dt)) = Cardinality(live)
        /\ 2 * dt.n <= DerefHashModulus => ResizeKeeps(dt)

\* the table has been doubled twice and holds more entries than fitted
\* before
KeepsAcrossResizeWitness ==
    /\ kind = "deref"
    /\ dt.n = 4 * DerefN
    /\ Cardinality(live) >= 3
    /\ \E e1 \in live, e2 \in live : e1.k # e2.k

\* ------------------------------------------------------------------------
\* C25  TinyHashTable behaves as a map: after any sequence of insert and
\* remove calls, get(key) returns the value of the most recent
\* insert(key, .) that was not followed by remove(key), and None otherwise.
\* ------------------------------------------------------------------------
MapBehaviour ==
    kind = "tiny" => \A k \in Keys : TinyGet(tht, k) = model[k]

\* a key holds its second value while the entry of its first value is
\* still in the table, and another key is present
MapBehaviourWitness ==
    /\ kind = "tiny"
    /\ \E k \in Keys :
           /\ model[k] = <<2>>
           /\ \E pos \in Occupied(tht.deref) :
                  /\ tht.deref.owner_info[pos][1] = k
                  /\ tht.deref.A[pos] = <<1>>
           /\ \E k2 \in Keys \ {k} : model[k2] # None

\* ------------------------------------------------------------------------
\* C26  TinyHashTable leaves no unreachable entries: after any sequence of
\* insert and remove calls, including the insert of a key that is already
\* present, the number of live entries of the underlying DerefTable equals
\* len(index_table), and every live entry is the one index_table points to.
\* ------------------------------------------------------------------------
NoUnreachableEntries ==
    kind = "tiny" =>
        /\ Cardinality(Occupied(tht.deref)) = TinyLen(tht)
        /\ \A pos \in Occupied(tht.deref) :
               tht.index_table[tht.deref.owner_info[pos][1]]
                   = <<tht.deref.owner_info[pos][2]>>

\* ------------------------------------------------------------------------
\* C27  SimulationHashTable behaves as a map: after any sequence of insert,
\* delete and search calls, search(key) returns the value of the most
\* recent insert(key, .) not followed by a successful delete(key) and None
\* otherwise, each key occupies at most one slot, and size equals the
\* number of live keys.
\* ------------------------------------------------------------------------
SimSlotsOf(t, k) ==
    {idx \in DOMAIN t.table :
        /\ t.table[idx] # None
        /\ t.table[idx] # TOMBSTONE
        /\ t.table[idx][1] = k}

SimMap ==
    kind = "sim" =>
        /\ \A k \in SimKeys :
               /\ SimSearch(sim, k) = model[k]
               /\ Cardinality(SimSlotsOf(sim, k)) <= 1
        /\ sim.size = Cardinality({k \in SimKeys : model[k] # None})

\* an insert has just stored a key in a table without empty slot: it went
\* through the whole permutation and took the first tombstone
SimMapWitness ==
    /\ kind = "sim"
    /\ last = [op |-> "insert", err |-> ""]
    /\ \A idx \in DOMAIN sim.table : sim.table[idx] # None
    /\ \E idx \in DOMAIN sim.table : sim.table[idx] = TOMBSTONE
    /\ sim.size = SimM - 1

\* ------------------------------------------------------------------------
\* C28  TinyAllocator.allocate terminates: in every reachable state, under
\* fair random choice of positions, allocate(k) eventually returns, also in
\* the state in which all capacity positions are in use.
\* ------------------------------------------------------------------------
AllocateTerminates == (pc.at = "allocate") ~> (pc.at = "idle")

====
